---- MODULE Spec2Model ----
(***************************************************************************)
(* KRAG knowledge-RAG pipeline: the document chunker (DocumentChunker) and *)
(* the document ranker (DocumentRanker).                                   *)
(*                                                                         *)
(* Strings are sequences of one-character strings; positions of the Python *)
(* code are 0-based and are kept 0-based in `start`, `end` and the find    *)
(* results, and converted when a TLA+ sequence is indexed.                 *)
(***************************************************************************)
EXTENDS Integers, Sequences, FiniteSets, TLC

\* ---------------------------------------------------------------- bounds
MaxTextLen == 5        \* longest text given to chunk() in Spec
MaxChunkSize == 3      \* largest chunk_size given to the constructor in Spec
MaxCharTextLen == 6    \* longest text given to chunk() in SpecChar
MaxCharChunkSize == 5  \* largest chunk_size given to the constructor in SpecChar
MaxChunks == 8         \* cap on the chunks one character loop may collect
MaxMetaTextLen == 3    \* longest text given to chunk() in SpecMeta
MaxMutations == 1      \* cap on the caller's later writes to a metadata dict
MaxDocs == 3           \* longest document list given to rank()
MaxFilterDocs == 3     \* longest document list in SpecFilter
MaxQueryLen == 2       \* longest query given to retrieve()
MaxRetrieved == 2      \* longest list vector_store.search returns
MaxRequestTopK == 1    \* largest top_k a request or a retrieve call carries
MaxBatch == 2          \* longest query list given to retrieve_batch()
MaxFiles == 2          \* longest file list given to upload_documents()
MaxUploadChunks == 2   \* most chunks chunker.chunk returns for one uploaded file

\* ------------------------------------------------------------- alphabet
Alphabet == {"a", ".", " ", "\n"}
Whitespace == {" ", "\n"}
SentenceEnd == {".", "!", "?"}

Texts(n) == UNION {[1..k -> Alphabet] : k \in 0..n}

Max2(a, b) == IF a >= b THEN a ELSE b
Min2(a, b) == IF a <= b THEN a ELSE b
SetMax(S) == CHOOSE x \in S : \A y \in S : y <= x
SetMin(S) == CHOOSE x \in S : \A y \in S : x <= y

\* ------------------------------------------------- Python str primitives
\* s[a:b] with Python's clamping and negative-index rules
PySlice(s, a, b) ==
    LET n == Len(s)
        lo == IF a < 0 THEN Max2(n + a, 0) ELSE Min2(a, n)
        hi == IF b < 0 THEN Max2(n + b, 0) ELSE Min2(b, n)
    IN  IF lo >= hi THEN <<>> ELSE SubSeq(s, lo + 1, hi)

\* s.strip()
Strip(s) ==
    LET keep == {i \in 1..Len(s) : s[i] \notin Whitespace}
    IN  IF keep = {} THEN <<>> ELSE SubSeq(s, SetMin(keep), SetMax(keep))

\* s.rfind(". "), 0-based, -1 when absent
RFindPeriod(s) ==
    SetMax({-1} \cup {i - 1 : i \in {j \in 1..(Len(s) - 1) : s[j] = "." /\ s[j + 1] = " "}})

\* s.rfind("\n"), 0-based, -1 when absent
RFindNewline(s) ==
    SetMax({-1} \cup {i - 1 : i \in {j \in 1..Len(s) : s[j] = "\n"}})

\* sep.join(parts)
RECURSIVE Join(_, _)
Join(parts, sep) ==
    IF parts = <<>> THEN <<>>
    ELSE IF Len(parts) = 1 THEN parts[1]
    ELSE parts[1] \o sep \o Join(Tail(parts), sep)

\* first position >= i (1-based) that is not whitespace, Len(s)+1 if none
RECURSIVE SkipWhitespace(_, _)
SkipWhitespace(s, i) ==
    IF i > Len(s) \/ s[i] \notin Whitespace THEN i ELSE SkipWhitespace(s, i + 1)

\* re.split(r"(?<=[.!?])\s+", s): cut at every whitespace run that directly
\* follows a sentence-ending character
RECURSIVE SplitSentencesFrom(_, _, _)
SplitSentencesFrom(s, i, cur) ==
    IF i > Len(s) THEN <<cur>>
    ELSE IF i > 1 /\ s[i] \in Whitespace /\ s[i - 1] \in SentenceEnd
         THEN <<cur>> \o SplitSentencesFrom(s, SkipWhitespace(s, i), <<>>)
         ELSE SplitSentencesFrom(s, i + 1, Append(cur, s[i]))

SplitSentences(s) == SplitSentencesFrom(s, 1, <<>>)

\* s.split("\n\n")
RECURSIVE SplitParagraphsFrom(_, _, _)
SplitParagraphsFrom(s, i, cur) ==
    IF i > Len(s) THEN <<cur>>
    ELSE IF i < Len(s) /\ s[i] = "\n" /\ s[i + 1] = "\n"
         THEN <<cur>> \o SplitParagraphsFrom(s, i + 2, <<>>)
         ELSE SplitParagraphsFrom(s, i + 1, Append(cur, s[i]))

SplitParagraphs(s) == SplitParagraphsFrom(s, 1, <<>>)

\* ------------------------------------------------------------ the state
VARIABLES
    pc,             \* where the caller / the running call is
    self,           \* the DocumentChunker instance: chunk_size, chunk_overlap, strategy
    text,           \* chunk(): the text argument
    metadata,       \* chunk(): the metadata argument, 0 for None, else a heap reference
    heap,           \* the dict objects alive: heap[r] is the mapping of reference r
    result,         \* chunk(): the returned list of chunk dicts
    char_text,      \* _chunk_by_character: the text argument
    start,          \* _chunk_by_character: start
    char_chunks,    \* _chunk_by_character: chunks
    char_windows,   \* history: the [start, end) window of every char_chunks entry
    sentences,      \* _chunk_by_sentence: sentences
    paragraphs,     \* _chunk_by_paragraph: paragraphs
    pos,            \* number of sentences / paragraphs the for loop has consumed
    chunks,         \* _chunk_by_sentence / _chunk_by_paragraph: chunks
    current_chunk,  \* _chunk_by_sentence / _chunk_by_paragraph: current_chunk
    current_size,   \* _chunk_by_sentence / _chunk_by_paragraph: current_size
    current_ids,    \* history: list positions of the entries of current_chunk
    origin,         \* history: where every entry of chunks (and of result) came from
    mutations,      \* number of writes the caller made to returned dicts
    rpc,            \* where the caller of the DocumentRanker is
    ranker,         \* the DocumentRanker instance: strategy
    documents,      \* the candidates the caller built: the documents argument at the call
    top_k,          \* rank(): the top_k argument, given = FALSE for None
    ranked,         \* rank(): the returned list
    objects,        \* the dict objects and list objects of the ranker's caller and calls
    caller_docs,    \* the reference of the list object the caller built, 0 for none
    returned,       \* the reference of the list object the last call returned, 0 for none
    threshold,      \* filter_by_threshold(): the threshold argument, in quarters
    filtered,       \* filter_by_threshold(): the returned list
    refiltered,     \* the list a second call returns for the first one's result
    tpc,            \* DocumentRetriever.retrieve: where the call is
    query,          \* retrieve(): the query argument
    retrieve_k,     \* retrieve(): k, the top_k handed to vector_store.search
    retrieved,      \* retrieve(): the returned list
    embed_calls,    \* history: calls of embedder.embed in this retrieve call
    search_calls,   \* history: calls of vector_store.search in this retrieve call
    collab_log,     \* history: the collaborators this retrieve call invoked, in order
    failure,        \* history: the collaborator whose exception this call met, or "none"
    qpc,            \* query_knowledge_base: where the handler is
    request,        \* query_knowledge_base: the QueryRequest
    synthesizer,    \* query_knowledge_base: whether state holds a synthesizer
    q_documents,    \* query_knowledge_base: the local documents
    handed,         \* history: the list ranker.rank received from the handler
    calls,          \* history: the collaborator calls the handler made, in order
    sources,        \* query_knowledge_base: sources
    status,         \* the HTTP status of the response, 0 before there is one
    bpc,            \* DocumentRetriever.retrieve_batch: where the call is
    batch_queries,  \* retrieve_batch(): the queries argument
    batch_top_k,    \* retrieve_batch(): the top_k argument
    batch_pos,      \* retrieve_batch(): number of queries the for loop has taken
    batch_results,  \* retrieve_batch(): results
    batch_log,      \* history: per query taken, what its retrieve call did
    cpc,            \* per concurrent call: "idle", "running" or "returned"
    cargs,          \* history: per concurrent call, its kind and its argument
    frames,         \* the local variables of the running calls, one frame each
    outs,           \* per concurrent call, the value it returned
    loop_owner,     \* the upload call the event loop is running, 0 for none
    upc,            \* upload_documents, per call: where the handler is
    up_files,       \* upload_documents, per call: the filenames of the files argument
    up_pos,         \* upload_documents, per call: number of files the for loop has taken
    up_chunks,      \* upload_documents, per call: len(chunks) of the file in hand
    processed_files,\* upload_documents, per call: processed_files
    total_chunks,   \* upload_documents, per call: total_chunks
    up_errors,      \* upload_documents, per call: errors
    up_attempts,    \* history, per call: the list positions of the files taken, in order
    up_response     \* upload_documents, per call: the UploadResponse returned

vars == <<pc, self, text, metadata, heap, result, char_text, start, char_chunks,
          char_windows, sentences, paragraphs, pos, chunks, current_chunk,
          current_size, current_ids, origin, mutations,
          rpc, ranker, documents, top_k, ranked, objects, caller_docs, returned,
          threshold, filtered, refiltered,
          tpc, query, retrieve_k, retrieved, embed_calls, search_calls,
          collab_log, failure,
          qpc, request, synthesizer, q_documents, handed, calls, sources, status,
          bpc, batch_queries, batch_top_k, batch_pos, batch_results, batch_log,
          cpc, cargs, frames, outs,
          loop_owner, upc, up_files, up_pos, up_chunks, processed_files, total_chunks,
          up_errors, up_attempts, up_response>>

rankVars == <<rpc, ranker, documents, top_k, ranked, objects, caller_docs, returned>>
filterVars == <<threshold, filtered, refiltered>>
retrieverVars == <<tpc, query, retrieve_k, retrieved, embed_calls, search_calls,
                   collab_log, failure>>
queryVars == <<qpc, request, synthesizer, q_documents, handed, calls, sources, status>>
batchVars == <<bpc, batch_queries, batch_top_k, batch_pos, batch_results, batch_log>>
concVars == <<cpc, cargs, frames, outs>>
uploadVars == <<loop_owner, upc, up_files, up_pos, up_chunks, processed_files,
                total_chunks, up_errors, up_attempts, up_response>>
engineVars == <<rankVars, filterVars, retrieverVars, queryVars, batchVars, concVars, uploadVars>>
chunkerVars == <<pc, self, text, metadata, heap, result, char_text, start, char_chunks,
                 char_windows, sentences, paragraphs, pos, chunks, current_chunk,
                 current_size, current_ids, origin, mutations>>

charVars == <<char_text, start, char_chunks, char_windows>>
accVars == <<sentences, paragraphs, pos, chunks, current_chunk, current_size, current_ids>>

Strategies == {"character", "sentence", "paragraph", "semantic"}

\* a dict is the set of its <<key, value>> items
EmptyMap == {}
NoMetadata == [given |-> FALSE, map |-> EmptyMap]
Metadatas == {NoMetadata, [given |-> TRUE, map |-> EmptyMap],
              [given |-> TRUE, map |-> {<<"source", "t">>}]}

\* two calls in flight on the same instances
Calls == {1, 2}

\* no UploadResponse yet
NoResponse == [status |-> "none", files_processed |-> 0, chunks_created |-> 0,
               errors |-> <<>>]

\* the local variables of one call of chunk() or rank()
IdleFrame == [pc |-> "idle", kind |-> "none", arg |-> <<>>, items |-> <<>>, pos |-> 0,
              chunks |-> <<>>, current_chunk |-> <<>>, current_size |-> 0,
              selected |-> <<>>, remaining |-> <<>>, out |-> <<>>]

Init ==
    /\ pc = "new"
    /\ self = [chunk_size |-> 0, chunk_overlap |-> 0, strategy |-> "character"]
    /\ text = <<>>
    /\ metadata = 0
    /\ heap = <<>>
    /\ result = <<>>
    /\ char_text = <<>>
    /\ start = 0
    /\ char_chunks = <<>>
    /\ char_windows = <<>>
    /\ sentences = <<>>
    /\ paragraphs = <<>>
    /\ pos = 0
    /\ chunks = <<>>
    /\ current_chunk = <<>>
    /\ current_size = 0
    /\ current_ids = <<>>
    /\ origin = <<>>
    /\ mutations = 0
    /\ rpc = "new"
    /\ ranker = [strategy |-> "similarity"]
    /\ documents = <<>>
    /\ top_k = [given |-> FALSE, k |-> 0]
    /\ ranked = <<>>
    /\ objects = [dicts |-> <<>>, lists |-> <<>>]
    /\ caller_docs = 0
    /\ returned = 0
    /\ threshold = 0
    /\ filtered = <<>>
    /\ refiltered = <<>>
    /\ tpc = "idle"
    /\ query = <<>>
    /\ retrieve_k = 0
    /\ retrieved = <<>>
    /\ embed_calls = 0
    /\ search_calls = 0
    /\ collab_log = <<>>
    /\ failure = "none"
    /\ qpc = "idle"
    /\ request = [query |-> <<"a">>, top_k |-> 1, use_llm |-> FALSE,
                  similarity_threshold |-> 0]
    /\ synthesizer = FALSE
    /\ q_documents = <<>>
    /\ handed = <<>>
    /\ calls = <<>>
    /\ sources = <<>>
    /\ status = 0
    /\ bpc = "idle"
    /\ batch_queries = <<>>
    /\ batch_top_k = [given |-> FALSE, k |-> 0]
    /\ batch_pos = 0
    /\ batch_results = <<>>
    /\ batch_log = <<>>
    /\ cpc = [c \in Calls |-> "idle"]
    /\ cargs = [c \in Calls |-> [kind |-> "none", arg |-> <<>>]]
    /\ frames = [c \in Calls |-> IdleFrame]
    /\ outs = [c \in Calls |-> <<>>]
    /\ loop_owner = 0
    /\ upc = [c \in Calls |-> "idle"]
    /\ up_files = [c \in Calls |-> <<>>]
    /\ up_pos = [c \in Calls |-> 0]
    /\ up_chunks = [c \in Calls |-> 0]
    /\ processed_files = [c \in Calls |-> 0]
    /\ total_chunks = [c \in Calls |-> 0]
    /\ up_errors = [c \in Calls |-> <<>>]
    /\ up_attempts = [c \in Calls |-> <<>>]
    /\ up_response = [c \in Calls |-> NoResponse]

\* ------------------------------------------------- DocumentChunker.__init__
OverlapRejectedStrict(chunk_size, chunk_overlap) == chunk_overlap > chunk_size

OverlapRejected(chunk_size, chunk_overlap) == chunk_overlap >= chunk_size

ConstructWith(sizes, overlaps, strategies) ==
    /\ pc = "new"
    /\ \E chunk_size \in sizes, chunk_overlap \in overlaps, strategy \in strategies :
          /\ self' = [chunk_size |-> chunk_size, chunk_overlap |-> chunk_overlap,
                      strategy |-> strategy]
          /\ pc' = IF OverlapRejected(chunk_size, chunk_overlap) THEN "ValueError" ELSE "ready"
    /\ UNCHANGED <<text, metadata, heap, result, origin, charVars, accVars, mutations>>
    /\ UNCHANGED engineVars

\* the constructor, the overlaps drawn from 0 and the sizes
Construct(sizes, strategies) == ConstructWith(sizes, {0} \cup sizes, strategies)

\* ---------------------------------------------------- DocumentChunker.chunk
IsBlankEmptyOnly(t) == t = <<>>

\* `not text or not text.strip()`
IsBlank(t) == t = <<>> \/ Strip(t) = <<>>

\* truth value of the metadata argument: None and the empty dict are falsy
Truthy(md, hp) == md # 0 /\ hp[md] # EmptyMap

EnumIndexFromOne(i) == i

\* enumerate(chunks): the index paired with the i-th (1-based) chunk
EnumIndex(i) == i - 1

UnitMetadataRefShared(i, md, hp) == IF Truthy(md, hp) THEN md ELSE Len(hp) + i

\* `metadata.copy() if metadata else {}` makes a new dict object for every chunk
UnitMetadataRef(i, md, hp) == Len(hp) + i

UnitMetadataMap(md, hp) == IF Truthy(md, hp) THEN hp[md] ELSE EmptyMap

\* the list built by the loop of lines 67-74
BuildResult(cs, md, hp) ==
    [i \in 1..Len(cs) |-> [content |-> cs[i],
                           chunk_index |-> EnumIndex(i),
                           metadata |-> UnitMetadataRef(i, md, hp)]]

\* the heap after that loop: one new dict per chunk
HeapAfter(cs, md, hp) == hp \o [i \in 1..Len(cs) |-> UnitMetadataMap(md, hp)]

ChunkCall(texts, metas) ==
    /\ pc = "ready"
    /\ \E t \in texts, m \in metas :
          /\ text' = t
          /\ metadata' = IF m.given THEN 1 ELSE 0
          /\ heap' = IF m.given THEN <<m.map>> ELSE <<>>
          /\ IF IsBlank(t)
             THEN /\ pc' = "done"
                  /\ UNCHANGED <<charVars, accVars>>
             ELSE CASE self.strategy = "sentence" ->
                         /\ pc' = "sentence"
                         /\ sentences' = SplitSentences(t)
                         /\ UNCHANGED <<charVars, paragraphs, pos, chunks, current_chunk,
                                        current_size, current_ids>>
                    [] self.strategy = "paragraph" ->
                         /\ pc' = "paragraph"
                         /\ paragraphs' = SplitParagraphs(t)
                         /\ UNCHANGED <<charVars, sentences, pos, chunks, current_chunk,
                                        current_size, current_ids>>
                    [] OTHER ->
                         /\ pc' = "character"
                         /\ char_text' = t
                         /\ UNCHANGED <<start, char_chunks, char_windows, accVars>>
    /\ UNCHANGED <<self, result, origin, mutations>>
    /\ UNCHANGED engineVars

\* ---------------------------------------- DocumentChunker._chunk_by_character
WindowEndPastBreak(t, st, chunk_size) ==
    LET end == st + chunk_size
    IN  IF end < Len(t)
        THEN LET chunk_text == PySlice(t, st, end)
                 break_point == Max2(RFindPeriod(chunk_text), RFindNewline(chunk_text))
             IN  IF break_point > chunk_size \div 2 THEN end + break_point + 1 ELSE end
        ELSE end

\* the value of `end` when the chunk is cut (lines 94-106)
WindowEnd(t, st, chunk_size) ==
    LET end == st + chunk_size
    IN  IF end < Len(t)
        THEN LET chunk_text == PySlice(t, st, end)
                 last_period == RFindPeriod(chunk_text)
                 last_newline == RFindNewline(chunk_text)
                 break_point == Max2(last_period, last_newline)
             IN  IF break_point > chunk_size \div 2 THEN st + break_point + 1 ELSE end
        ELSE end

NextStartAtEnd(end, chunk_overlap) == end

NextStartPastEnd(end, chunk_overlap) == end + 1

\* the next value of `start` (line 113)
NextStart(end, chunk_overlap) == end - chunk_overlap

\* one iteration of the while loop
CharStep ==
    /\ pc = "character"
    /\ start < Len(char_text)
    /\ Len(char_chunks) < MaxChunks
    /\ LET end == WindowEnd(char_text, start, self.chunk_size)
           chunk == Strip(PySlice(char_text, start, end))
       IN  /\ char_chunks' = IF chunk # <<>> THEN Append(char_chunks, chunk) ELSE char_chunks
           /\ char_windows' = IF chunk # <<>>
                                THEN Append(char_windows, [lo |-> start, hi |-> end])
                                ELSE char_windows
           /\ start' = NextStart(end, self.chunk_overlap)
    /\ UNCHANGED <<pc, self, char_text, text, metadata, heap, result, origin, accVars, mutations>>
    /\ UNCHANGED engineVars

WindowOrigin(item, ws) ==
    [i \in 1..Len(ws) |-> [kind |-> "window", ids |-> <<item>>, lo |-> ws[i].lo, hi |-> ws[i].hi]]

\* the while loop ends and chunk() wraps the chunks (strategy character or unknown)
CharReturnToChunk ==
    /\ pc = "character"
    /\ start >= Len(char_text)
    /\ self.strategy # "paragraph"
    /\ result' = BuildResult(char_chunks, metadata, heap)
    /\ heap' = HeapAfter(char_chunks, metadata, heap)
    /\ origin' = WindowOrigin(0, char_windows)
    /\ pc' = "done"
    /\ UNCHANGED <<self, text, metadata, charVars, accVars, mutations>>
    /\ UNCHANGED engineVars

\* the while loop ends inside _chunk_by_paragraph, which extends its chunks (line 201)
CharReturnToParagraph ==
    /\ pc = "character"
    /\ start >= Len(char_text)
    /\ self.strategy = "paragraph"
    /\ chunks' = chunks \o char_chunks
    /\ origin' = origin \o WindowOrigin(pos, char_windows)
    /\ pc' = "paragraph"
    /\ UNCHANGED <<self, text, metadata, heap, result, charVars, sentences, paragraphs,
                   pos, current_chunk, current_size, current_ids, mutations>>
    /\ UNCHANGED engineVars

\* ----------------------------------------- DocumentChunker._chunk_by_sentence
RECURSIVE SumLen(_)
SumLen(parts) == IF parts = <<>> THEN 0 ELSE Len(parts[1]) + SumLen(Tail(parts))

LastN(s, n) == SubSeq(s, Len(s) - n + 1, Len(s))

ItemsOrigin(ids) == [kind |-> "items", ids |-> ids, lo |-> 0, hi |-> 0]

\* the loop of lines 148-153: how many trailing sentences are kept, walking
\* back from position k with overlap_size = size
RECURSIVE OverlapKeep(_, _, _, _)
OverlapKeep(cc, chunk_overlap, k, size) ==
    IF k = 0 THEN 0
    ELSE IF size + Len(cc[k]) <= chunk_overlap
         THEN 1 + OverlapKeep(cc, chunk_overlap, k - 1, size + Len(cc[k]))
         ELSE 0

\* number of sentences the new chunk is seeded with (lines 143-158)
SentenceCarry(cc, chunk_overlap) ==
    IF Len(Join(cc, <<" ">>)) > chunk_overlap
    THEN OverlapKeep(cc, chunk_overlap, Len(cc), 0)
    ELSE 0

\* one iteration of the for loop over sentences
SentenceStep ==
    /\ pc = "sentence"
    /\ pos < Len(sentences)
    /\ LET sentence == sentences[pos + 1]
           sentence_size == Len(sentence)
       IN  IF current_size + sentence_size > self.chunk_size /\ current_chunk # <<>>
           THEN LET keep == SentenceCarry(current_chunk, self.chunk_overlap)
                    overlap_sentences == LastN(current_chunk, keep)
                IN  /\ chunks' = Append(chunks, Join(current_chunk, <<" ">>))
                    /\ origin' = Append(origin, ItemsOrigin(current_ids))
                    /\ current_chunk' = Append(overlap_sentences, sentence)
                    /\ current_size' = SumLen(overlap_sentences) + sentence_size
                    /\ current_ids' = Append(LastN(current_ids, keep), pos + 1)
           ELSE /\ current_chunk' = Append(current_chunk, sentence)
                /\ current_size' = current_size + sentence_size
                /\ current_ids' = Append(current_ids, pos + 1)
                /\ UNCHANGED <<chunks, origin>>
    /\ pos' = pos + 1
    /\ UNCHANGED <<pc, self, text, metadata, heap, result, charVars, sentences,
                   paragraphs, mutations>>
    /\ UNCHANGED engineVars

\* chunks after `if current_chunk: chunks.append(sep.join(current_chunk))`
WithRemaining(sep) ==
    IF current_chunk # <<>> THEN Append(chunks, Join(current_chunk, sep)) ELSE chunks

OriginWithRemaining ==
    IF current_chunk # <<>> THEN Append(origin, ItemsOrigin(current_ids)) ELSE origin

\* the for loop ends: the remaining chunk is added and chunk() wraps the chunks
SentenceReturn ==
    /\ pc = "sentence"
    /\ pos = Len(sentences)
    /\ chunks' = WithRemaining(<<" ">>)
    /\ origin' = OriginWithRemaining
    /\ result' = BuildResult(chunks', metadata, heap)
    /\ heap' = HeapAfter(chunks', metadata, heap)
    /\ pc' = "done"
    /\ UNCHANGED <<self, text, metadata, charVars, sentences, paragraphs, pos,
                   current_chunk, current_size, current_ids, mutations>>
    /\ UNCHANGED engineVars

\* ---------------------------------------- DocumentChunker._chunk_by_paragraph
\* number of paragraphs the new chunk is seeded with (lines 208-213)
ParagraphCarry(size, chunk_overlap) == IF size > chunk_overlap THEN 1 ELSE 0

\* one iteration of the for loop over paragraphs
ParagraphStep ==
    /\ pc = "paragraph"
    /\ pos < Len(paragraphs)
    /\ pos' = pos + 1
    /\ LET paragraph == Strip(paragraphs[pos + 1])
           para_size == Len(paragraph)
       IN  IF paragraph = <<>>
           THEN UNCHANGED <<pc, charVars, chunks, origin, current_chunk, current_size,
                            current_ids>>
           ELSE IF para_size > self.chunk_size
           THEN /\ chunks' = WithRemaining(<<"\n", "\n">>)
                /\ origin' = OriginWithRemaining
                /\ current_chunk' = <<>>
                /\ current_size' = 0
                /\ current_ids' = <<>>
                /\ pc' = "character"
                /\ char_text' = paragraph
                /\ start' = 0
                /\ char_chunks' = <<>>
                /\ char_windows' = <<>>
           ELSE IF current_size + para_size > self.chunk_size /\ current_chunk # <<>>
           THEN LET keep == ParagraphCarry(current_size, self.chunk_overlap)
                    carried == LastN(current_chunk, keep)
                IN  /\ chunks' = Append(chunks, Join(current_chunk, <<"\n", "\n">>))
                    /\ origin' = Append(origin, ItemsOrigin(current_ids))
                    /\ current_chunk' = Append(carried, paragraph)
                    /\ current_size' = SumLen(carried) + para_size
                    /\ current_ids' = Append(LastN(current_ids, keep), pos + 1)
                    /\ UNCHANGED <<pc, charVars>>
           ELSE /\ current_chunk' = Append(current_chunk, paragraph)
                /\ current_size' = current_size + para_size
                /\ current_ids' = Append(current_ids, pos + 1)
                /\ UNCHANGED <<pc, charVars, chunks, origin>>
    /\ UNCHANGED <<self, text, metadata, heap, result, sentences, paragraphs, mutations>>
    /\ UNCHANGED engineVars

\* the for loop ends: the remaining chunk is added and chunk() wraps the chunks
ParagraphReturn ==
    /\ pc = "paragraph"
    /\ pos = Len(paragraphs)
    /\ chunks' = WithRemaining(<<"\n", "\n">>)
    /\ origin' = OriginWithRemaining
    /\ result' = BuildResult(chunks', metadata, heap)
    /\ heap' = HeapAfter(chunks', metadata, heap)
    /\ pc' = "done"
    /\ UNCHANGED <<self, text, metadata, charVars, sentences, paragraphs, pos,
                   current_chunk, current_size, current_ids, mutations>>
    /\ UNCHANGED engineVars

\* ------------------------------------------------------ the caller, afterwards
AttributeKeys == {"source"}
AttributeValues == {"t", "u"}

\* d[k] = v
DictSet(d, k, v) == {item \in d : item[1] # k} \cup {<<k, v>>}

\* the caller writes to one dict object: its own metadata or a returned chunk's
SetAttribute ==
    /\ pc = "done"
    /\ mutations < MaxMutations
    /\ \E r \in 1..Len(heap), k \in AttributeKeys, v \in AttributeValues :
          heap' = [heap EXCEPT ![r] = DictSet(heap[r], k, v)]
    /\ mutations' = mutations + 1
    /\ UNCHANGED <<pc, self, text, metadata, result, origin, charVars, accVars>>
    /\ UNCHANGED engineVars

\* ------------------------------------------------------------ DocumentRanker
\* A document is [content, score]; content is a string as above and score is
\* the float score counted in quarters (score = 3 stands for 0.75), so that
\* the products and differences of the MMR score are exact in floating point.
RankContents == {<<>>, <<"a">>, <<"A", " ", "b">>}
RankScores == {1, 2, 3}
DocPool == [content : RankContents, score : RankScores]
DocLists(n) == UNION {[1..k -> DocPool] : k \in 0..n}
RankStrategies == {"similarity", "diversity", "mmr", "bm25"}
NoLimit == [given |-> FALSE, k |-> 0]
Limits(n) == {NoLimit} \cup {[given |-> TRUE, k |-> k] : k \in 0..(n + 1)}

\* DocumentRanker.__init__
NewRanker(strategies) ==
    /\ rpc = "new"
    /\ \E strategy \in strategies : ranker' = [strategy |-> strategy]
    /\ rpc' = "ready"
    /\ UNCHANGED <<documents, top_k, ranked, objects, caller_docs, returned>>
    /\ UNCHANGED <<chunkerVars, batchVars, concVars, uploadVars, filterVars, retrieverVars, queryVars>>

InsertByScoreBeforeEqual(sorted, d) ==
    LET ahead == {i \in 1..Len(sorted) : sorted[i].score > d.score}
        n == IF ahead = {} THEN 0 ELSE SetMax(ahead)
    IN  SubSeq(sorted, 1, n) \o <<d>> \o SubSeq(sorted, n + 1, Len(sorted))

\* sorted(..., reverse=True) keeps equal keys in input order: d goes behind
\* every element whose score is not smaller
InsertByScore(sorted, d) ==
    LET ahead == {i \in 1..Len(sorted) : sorted[i].score >= d.score}
        n == IF ahead = {} THEN 0 ELSE SetMax(ahead)
    IN  SubSeq(sorted, 1, n) \o <<d>> \o SubSeq(sorted, n + 1, Len(sorted))

\* sorted(documents, key=score, reverse=True)
RECURSIVE SortedByScore(_)
SortedByScore(docs) ==
    IF docs = <<>> THEN <<>>
    ELSE InsertByScore(SortedByScore(SubSeq(docs, 1, Len(docs) - 1)), docs[Len(docs)])

\* _rank_by_similarity
RankBySimilarity(docs) == SortedByScore(docs)

\* the loop of lines 100-104
RECURSIVE Interleave(_, _)
Interleave(high_scores, medium_scores) ==
    IF high_scores = <<>> /\ medium_scores = <<>> THEN <<>>
    ELSE (IF high_scores # <<>> THEN <<Head(high_scores)>> ELSE <<>>)
         \o (IF medium_scores # <<>> THEN <<Head(medium_scores)>> ELSE <<>>)
         \o Interleave(IF high_scores # <<>> THEN Tail(high_scores) ELSE <<>>,
                       IF medium_scores # <<>> THEN Tail(medium_scores) ELSE <<>>)

\* _rank_by_diversity
RankByDiversity(docs) ==
    IF Len(docs) <= 2 THEN docs
    ELSE LET sorted_docs == SortedByScore(docs)
             half == Len(sorted_docs) \div 2
         IN  Interleave(SubSeq(sorted_docs, 1, half),
                        SubSeq(sorted_docs, half + 1, Len(sorted_docs)))

\* str.lower() on one character
Lower(c) == IF c = "A" THEN "a" ELSE IF c = "B" THEN "b" ELSE c

\* set(s.split()): the whitespace-separated words of s from position i on,
\* cur being the word under construction
RECURSIVE WordsFrom(_, _, _)
WordsFrom(s, i, cur) ==
    LET done == IF cur # <<>> THEN {cur} ELSE {}
    IN  IF i > Len(s) THEN done
        ELSE IF s[i] \in Whitespace THEN done \cup WordsFrom(s, i + 1, <<>>)
        ELSE WordsFrom(s, i + 1, Append(cur, s[i]))

\* set(content.lower().split())
WordSet(content) == WordsFrom([i \in 1..Len(content) |-> Lower(content[i])], 1, <<>>)

\* max(a, b) on fractions [num, den]
FracMax(a, b) == IF b.num * a.den > a.num * b.den THEN b ELSE a

\* similarity_penalty of doc against selected[1..k] (lines 142-153)
RECURSIVE SimilarityPenalty(_, _, _)
SimilarityPenalty(doc, selected, k) ==
    IF k = 0 THEN [num |-> 0, den |-> 1]
    ELSE LET before == SimilarityPenalty(doc, selected, k - 1)
             doc_words == WordSet(doc.content)
             selected_words == WordSet(selected[k].content)
         IN  IF doc_words # {} /\ selected_words # {}
             THEN FracMax(before, [num |-> Cardinality(doc_words \cap selected_words),
                                   den |-> Cardinality(doc_words \cup selected_words)])
             ELSE before

\* mmr_score(d1) > mmr_score(d2) with lambda_param = 0.5, where
\* mmr_score = 0.5 * score/4 - 0.5 * num/den = (score * den - 4 * num) / (8 * den)
MMRGreater(d1, p1, d2, p2) ==
    (d1.score * p1.den - 4 * p1.num) * p2.den > (d2.score * p2.den - 4 * p2.num) * p1.den

BestIndexLast(remaining, selected) ==
    LET pen(i) == SimilarityPenalty(remaining[i], selected, Len(selected))
        best == {i \in 1..Len(remaining) :
                    \A j \in 1..Len(remaining) :
                        ~MMRGreater(remaining[j], pen(j), remaining[i], pen(i))}
    IN  SetMax(best)

\* max(scores, key=...)[0]: the position of the first document of remaining
\* that no other one beats
BestIndex(remaining, selected) ==
    LET pen(i) == SimilarityPenalty(remaining[i], selected, Len(selected))
        best == {i \in 1..Len(remaining) :
                    \A j \in 1..Len(remaining) :
                        ~MMRGreater(remaining[j], pen(j), remaining[i], pen(i))}
    IN  SetMin(best)

RemoveEveryEqual(seq, x) == SelectSeq(seq, LAMBDA y : y # x)

\* list.remove(x): drops the first element equal to x
RemoveFirst(seq, x) ==
    LET i == SetMin({j \in 1..Len(seq) : seq[j] = x})
    IN  SubSeq(seq, 1, i - 1) \o SubSeq(seq, i + 1, Len(seq))

\* the while loop of lines 135-165
RECURSIVE MMRLoop(_, _, _)
MMRLoop(selected, remaining, n) ==
    IF remaining = <<>> \/ Len(selected) >= n THEN selected
    ELSE LET best_doc == remaining[BestIndex(remaining, selected)]
         IN  MMRLoop(Append(selected, best_doc), RemoveFirst(remaining, best_doc), n)

\* _rank_by_mmr
RankByMMR(docs) ==
    IF Len(docs) <= 1 THEN docs
    ELSE LET sorted_docs == SortedByScore(docs)
         IN  MMRLoop(<<sorted_docs[1]>>, Tail(sorted_docs), Len(docs))

RankAllUnknownUnranked(strategy, docs) ==
    CASE strategy = "similarity" -> RankBySimilarity(docs)
      [] strategy = "diversity" -> RankByDiversity(docs)
      [] strategy = "mmr" -> RankByMMR(docs)
      [] OTHER -> docs

\* the list `ranked` after the strategy dispatch (lines 44-52)
RankAll(strategy, docs) ==
    CASE strategy = "similarity" -> RankBySimilarity(docs)
      [] strategy = "diversity" -> RankByDiversity(docs)
      [] strategy = "mmr" -> RankByMMR(docs)
      [] OTHER -> RankBySimilarity(docs)

ApplyTopKOneMore(all, limit) ==
    IF limit.given /\ limit.k < Len(all) THEN PySlice(all, 0, limit.k + 1) ELSE all

\* the top_k filtering (lines 55-56)
ApplyTopK(all, limit) ==
    IF limit.given /\ limit.k < Len(all) THEN PySlice(all, 0, limit.k) ELSE all

\* the list rank(docs) returns when top_k is left out
RankUnlimited(strategy, docs) ==
    ApplyTopK(IF docs = <<>> THEN <<>> ELSE RankAll(strategy, docs), NoLimit)

\* ----------------------------------------------- the objects of a ranker call
\* The heap the ranker works on: dicts[d] is the mapping of dict reference d
\* (the keys content, score and metadata of a candidate), lists[l] the dict
\* references list object l holds, in order. An operation that builds a list
\* yields the heap afterwards and the reference of the list.

\* the candidates list object l holds, as content and score
DocsOf(h, l) ==
    [i \in 1..Len(h.lists[l]) |-> [content |-> h.dicts[h.lists[l][i]].content,
                                   score |-> h.dicts[h.lists[l][i]].score]]

\* a list display, a slice, a comprehension and sorted() all build a new list
\* object
Allocated(h, refs) ==
    [heap |-> [h EXCEPT !.lists = Append(@, refs)], ref |-> Len(h.lists) + 1]

\* the references of refs in the order sorted(key=score, reverse=True) gives:
\* the last one goes behind every reference whose dict has a score that is
\* not smaller
RECURSIVE SortedRefs(_, _)
SortedRefs(h, refs) ==
    IF refs = <<>> THEN <<>>
    ELSE LET d == refs[Len(refs)]
             sorted == SortedRefs(h, SubSeq(refs, 1, Len(refs) - 1))
             ahead == {i \in 1..Len(sorted) : h.dicts[sorted[i]].score >= h.dicts[d].score}
             n == IF ahead = {} THEN 0 ELSE SetMax(ahead)
         IN  SubSeq(sorted, 1, n) \o <<d>> \o SubSeq(sorted, n + 1, Len(sorted))

\* documents.sort(key=score, reverse=True): the list object l itself reordered
SortedInPlace(h, l) ==
    [heap |-> [h EXCEPT !.lists[l] = SortedRefs(h, @)], ref |-> l]

\* sorted(documents, key=score, reverse=True): a new list object holding the
\* references of list object l in descending order of score
Sorted(h, l) == Allocated(h, SortedRefs(h, h.lists[l]))

\* lst.remove(d): list object l loses its first entry that is d or whose dict
\* equals the dict of d
ListRemove(h, l, d) ==
    LET refs == h.lists[l]
        i == SetMin({j \in 1..Len(refs) :
                        refs[j] = d \/ h.dicts[refs[j]] = h.dicts[d]})
    IN  [h EXCEPT !.lists[l] = SubSeq(refs, 1, i - 1) \o SubSeq(refs, i + 1, Len(refs))]

\* _rank_by_diversity on list object l: with at most two candidates the list
\* object passed in is returned (lines 87-88); else sorted_docs, diverse_docs
\* and the two slices are new list objects, the loop of lines 100-104 appends
\* to diverse_docs, and diverse_docs is returned
DiversityObjects(h, l) ==
    IF Len(h.lists[l]) <= 2 THEN [heap |-> h, ref |-> l]
    ELSE LET sorted_docs == Sorted(h, l)
             n == Len(sorted_docs.heap.lists[sorted_docs.ref])
             diverse_docs == Allocated(sorted_docs.heap, <<>>)
             high_scores == Allocated(diverse_docs.heap,
                                      PySlice(diverse_docs.heap.lists[sorted_docs.ref],
                                              0, n \div 2))
             medium_scores == Allocated(high_scores.heap,
                                        PySlice(high_scores.heap.lists[sorted_docs.ref],
                                                n \div 2, n))
             hm == medium_scores.heap
         IN  [heap |-> [hm EXCEPT !.lists[diverse_docs.ref] =
                                      @ \o Interleave(hm.lists[high_scores.ref],
                                                      hm.lists[medium_scores.ref])],
              ref |-> diverse_docs.ref]

\* the while loop of lines 135-165 on the list objects selected and remaining:
\* best_doc is appended to selected and removed from remaining
RECURSIVE MMRObjectLoop(_, _, _, _)
MMRObjectLoop(h, selected, remaining, n) ==
    IF h.lists[remaining] = <<>> \/ Len(h.lists[selected]) >= n THEN h
    ELSE LET rem == h.lists[remaining]
             sel == h.lists[selected]
             best_doc == rem[BestIndex([i \in 1..Len(rem) |-> h.dicts[rem[i]]],
                                       [i \in 1..Len(sel) |-> h.dicts[sel[i]]])]
         IN  MMRObjectLoop(ListRemove([h EXCEPT !.lists[selected] = Append(@, best_doc)],
                                      remaining, best_doc),
                           selected, remaining, n)

\* _rank_by_mmr on list object l: with at most one candidate the list object
\* passed in is returned (lines 123-124); else sorted_docs, selected and
\* remaining are new list objects and selected is returned
MMRObjects(h, l) ==
    IF Len(h.lists[l]) <= 1 THEN [heap |-> h, ref |-> l]
    ELSE LET sorted_docs == Sorted(h, l)
             selected == Allocated(sorted_docs.heap,
                                   <<sorted_docs.heap.lists[sorted_docs.ref][1]>>)
             remaining == Allocated(selected.heap,
                                    PySlice(selected.heap.lists[sorted_docs.ref], 1,
                                            Len(selected.heap.lists[sorted_docs.ref])))
         IN  [heap |-> MMRObjectLoop(remaining.heap, selected.ref, remaining.ref,
                                     Len(remaining.heap.lists[l])),
              ref |-> selected.ref]

\* the strategy dispatch (lines 44-52) on list object l: the heap afterwards
\* and the reference bound to `ranked`
RankAllObjects(h, strategy, l) ==
    CASE strategy = "similarity" -> Sorted(h, l)
      [] strategy = "diversity" -> DiversityObjects(h, l)
      [] strategy = "mmr" -> MMRObjects(h, l)
      [] OTHER -> Sorted(h, l)

\* the caller of rank() or filter_by_threshold() builds its candidates: one
\* dict object per candidate, carrying the metadata md, and the list object,
\* reference 1, that holds them in order
BuildDocuments(lists, attributes) ==
    /\ rpc = "ready"
    /\ \E docs \in lists, md \in attributes :
          /\ documents' = docs
          /\ objects' = [dicts |-> [i \in 1..Len(docs) |->
                                       [content |-> docs[i].content,
                                        score |-> docs[i].score,
                                        metadata |-> md]],
                          lists |-> <<[i \in 1..Len(docs) |-> i]>>]
    /\ caller_docs' = 1
    /\ rpc' = "built"
    /\ UNCHANGED <<ranker, top_k, ranked, returned>>
    /\ UNCHANGED <<chunkerVars, batchVars, concVars, uploadVars, filterVars, retrieverVars, queryVars>>

\* DocumentRanker.rank, called with the list object the caller built
Rank(limits) ==
    /\ rpc = "built"
    /\ \E docs \in {DocsOf(objects, caller_docs)} :
          \E all \in {IF docs = <<>> THEN <<>> ELSE RankAll(ranker.strategy, docs)},
             made \in {IF docs = <<>> THEN Allocated(objects, <<>>)
                       ELSE RankAllObjects(objects, ranker.strategy, caller_docs)} :
             \E limit \in limits :
                \E call \in {IF limit.given /\ limit.k < Len(made.heap.lists[made.ref])
                              THEN Allocated(made.heap,
                                             PySlice(made.heap.lists[made.ref], 0, limit.k))
                              ELSE made} :
                   /\ top_k' = limit
                   /\ ranked' = ApplyTopK(all, limit)
                   /\ objects' = call.heap
                   /\ returned' = call.ref
    /\ rpc' = "returned"
    /\ UNCHANGED <<ranker, documents, caller_docs>>
    /\ UNCHANGED <<chunkerVars, batchVars, concVars, uploadVars, filterVars, retrieverVars, queryVars>>

KeepsAbove(doc, th) == doc.score > th

\* the condition of the comprehension (line 182)
Keeps(doc, th) == doc.score >= th

\* a loop that removes the rejected documents from the list it walks, so that
\* the document behind a removed one is never looked at
RECURSIVE RemoveWhileWalking(_, _, _)
RemoveWhileWalking(docs, th, i) ==
    IF i > Len(docs) THEN docs
    ELSE IF Keeps(docs[i], th) THEN RemoveWhileWalking(docs, th, i + 1)
    ELSE RemoveWhileWalking(SubSeq(docs, 1, i - 1) \o SubSeq(docs, i + 1, Len(docs)),
                            th, i + 1)

FilterByThresholdInPlace(docs, th) == RemoveWhileWalking(docs, th, 1)

\* [doc for doc in documents if doc.get("score", 0.0) >= threshold]
FilterByThreshold(docs, th) == SelectSeq(docs, LAMBDA doc : Keeps(doc, th))

\* filter_by_threshold() on list object l: the comprehension of line 182
\* builds a new list object
FilterObjects(h, l, th) ==
    Allocated(h, SelectSeq(h.lists[l], LAMBDA d : Keeps(h.dicts[d], th)))

\* thresholds in quarters: 0.0, 0.25, 0.5, 0.75, 1.0
Thresholds == 0..4

\* DocumentRanker.filter_by_threshold, called with the list object the caller
\* built
Filter(thresholds) ==
    /\ rpc = "built"
    /\ \E th \in thresholds :
          \E call \in {FilterObjects(objects, caller_docs, th)} :
              /\ threshold' = th
              /\ filtered' = FilterByThreshold(DocsOf(objects, caller_docs), th)
              /\ objects' = call.heap
              /\ returned' = call.ref
    /\ rpc' = "filtered"
    /\ UNCHANGED <<ranker, documents, top_k, ranked, caller_docs, refiltered>>
    /\ UNCHANGED <<chunkerVars, batchVars, concVars, uploadVars, retrieverVars, queryVars>>

\* filter_by_threshold called again, with the list object the first call
\* returned
FilterAgain ==
    /\ rpc = "filtered"
    /\ \E call \in {FilterObjects(objects, returned, threshold)} :
           /\ refiltered' = FilterByThreshold(filtered, threshold)
           /\ objects' = call.heap
           /\ returned' = call.ref
    /\ rpc' = "refiltered"
    /\ UNCHANGED <<ranker, documents, top_k, ranked, caller_docs, threshold, filtered>>
    /\ UNCHANGED <<chunkerVars, batchVars, concVars, uploadVars, retrieverVars, queryVars>>

\* ---------------------------------------------------------- DocumentRetriever
\* DocumentRetriever.__init__: the default of top_k
DefaultTopK == 5

\* retrieve(): top_k left out, or one of the values a request may carry
RetrieveLimits == {NoLimit} \cup {[given |-> TRUE, k |-> k] : k \in 1..MaxRequestTopK}

IsBlankQueryEmptyOnly(q) == q = <<>>

\* not query or not query.strip()
IsBlankQuery(q) == q = <<>> \/ Strip(q) = <<>>

\* retrieve() up to the try block (lines 55-59)
RetrieveEnter(q, limit) ==
    /\ query' = q
    /\ embed_calls' = 0
    /\ search_calls' = 0
    /\ retrieved' = <<>>
    /\ collab_log' = <<>>
    /\ failure' = "none"
    /\ IF IsBlankQuery(q)
       THEN /\ tpc' = "returned"
            /\ retrieve_k' = 0
       ELSE /\ tpc' = "embedding"
            /\ retrieve_k' = IF limit.given THEN limit.k ELSE DefaultTopK

\* DocumentRetriever.retrieve, called on its own
Retrieve(queries, limits) ==
    /\ tpc = "idle"
    /\ qpc = "idle"
    /\ \E q \in queries, limit \in limits : RetrieveEnter(q, limit)
    /\ UNCHANGED <<chunkerVars, batchVars, concVars, uploadVars, rankVars, filterVars, queryVars>>

AfterEmbedSwallowed(ok) == "searching"

\* where retrieve goes after embedder.embed: on to the search, or through the
\* except block, which logs and re-raises (lines 64, 81-83)
AfterEmbed(ok) == IF ok THEN "searching" ELSE "raised"

\* self.embedder.embed(query) returns or raises (lines 64, 81-83)
Embed ==
    /\ tpc = "embedding"
    /\ embed_calls' = embed_calls + 1
    /\ collab_log' = Append(collab_log, "embed")
    /\ \E ok \in BOOLEAN :
          /\ tpc' = AfterEmbed(ok)
          /\ failure' = IF ok THEN failure ELSE "embed"
    /\ UNCHANGED <<query, retrieve_k, retrieved, search_calls>>
    /\ UNCHANGED <<chunkerVars, batchVars, concVars, uploadVars, rankVars, filterVars, queryVars>>

\* self.vector_store.search(...) returns a list, which retrieve returns, or
\* raises (lines 72-83)
Search(lists) ==
    /\ tpc = "searching"
    /\ search_calls' = search_calls + 1
    /\ collab_log' = Append(collab_log, "search")
    /\ \E ok \in BOOLEAN :
          IF ok THEN /\ \E results \in lists : retrieved' = results
                     /\ tpc' = "returned"
                     /\ UNCHANGED failure
          ELSE /\ tpc' = "raised"
               /\ failure' = "search"
               /\ UNCHANGED retrieved
    /\ UNCHANGED <<query, retrieve_k, embed_calls>>
    /\ UNCHANGED <<chunkerVars, batchVars, concVars, uploadVars, rankVars, filterVars, queryVars>>

\* the queries of a batch, and the lists the vector store finds for them
BatchQueries == {<<>>, <<" ">>, <<"a">>}
BatchQueryLists(n) == UNION {[1..k -> BatchQueries] : k \in 0..n}
BatchFound == {<<>>,
               <<[content |-> <<"a">>, score |-> 3]>>,
               <<[content |-> <<>>, score |-> 1], [content |-> <<"a">>, score |-> 3]>>}

\* retrieve_batch: results = [] and the start of the for loop (lines 101-102)
BatchStart(queryLists, limits) ==
    /\ bpc = "idle"
    /\ tpc = "idle"
    /\ qpc = "idle"
    /\ \E qs \in queryLists, limit \in limits :
          /\ batch_queries' = qs
          /\ batch_top_k' = limit
    /\ batch_pos' = 0
    /\ batch_results' = <<>>
    /\ batch_log' = <<>>
    /\ bpc' = "loop"
    /\ UNCHANGED <<chunkerVars, concVars, uploadVars, rankVars, filterVars, retrieverVars, queryVars>>

\* the for loop takes the next query and calls self.retrieve(query,
\* top_k=top_k) (lines 102-104), or is exhausted and results is returned
\* (line 109)
BatchNext ==
    /\ bpc = "loop"
    /\ IF batch_pos < Len(batch_queries)
       THEN /\ RetrieveEnter(batch_queries[batch_pos + 1], batch_top_k)
            /\ batch_pos' = batch_pos + 1
            /\ bpc' = "calling"
       ELSE /\ bpc' = "returned"
            /\ UNCHANGED <<batch_pos, retrieverVars>>
    /\ UNCHANGED <<batch_queries, batch_top_k, batch_results, batch_log>>
    /\ UNCHANGED <<chunkerVars, concVars, uploadVars, rankVars, filterVars, queryVars>>

BatchEntryDropped(raised, found) == IF raised THEN <<>> ELSE <<found>>

\* what one pass of the loop appends to results: the list retrieve returned
\* (line 105) or, when it raised, an empty list (line 107)
BatchEntry(raised, found) == IF raised THEN <<<<>>>> ELSE <<found>>

\* the retrieve call of the loop body has returned or raised (lines 103-107)
BatchCollect ==
    /\ bpc = "calling"
    /\ tpc \in {"returned", "raised"}
    /\ batch_results' = batch_results \o BatchEntry(tpc = "raised", retrieved)
    /\ batch_log' = Append(batch_log, [query |-> query, raised |-> tpc = "raised",
                                       found |-> retrieved])
    /\ bpc' = "loop"
    /\ tpc' = "idle"
    /\ UNCHANGED <<query, retrieve_k, retrieved, embed_calls, search_calls,
                   collab_log, failure>>
    /\ UNCHANGED <<batch_queries, batch_top_k, batch_pos>>
    /\ UNCHANGED <<chunkerVars, concVars, uploadVars, rankVars, filterVars, queryVars>>

\* ------------------------------------------------------ query_knowledge_base
\* QueryRequest: query has min_length 1, top_k >= 1, 0 <= similarity_threshold <= 1
RequestQueries == {<<"a">>, <<" ">>, <<"a", " ">>}
Requests == [query : RequestQueries, top_k : 1..MaxRequestTopK, use_llm : BOOLEAN,
             similarity_threshold : Thresholds]

\* the handler is entered: it reads the state, in which the synthesizer is
\* None when the application has no API key (lines 152-154, main.py lines
\* 69-75), checks it (lines 156-159) and calls retriever.retrieve (164-168)
QueryStart(requests) ==
    /\ qpc = "idle"
    /\ tpc = "idle"
    /\ \E req \in requests, synth \in BOOLEAN :
          /\ request' = req
          /\ synthesizer' = synth
          /\ IF rpc = "new"
             THEN /\ qpc' = "error"
                  /\ status' = 500
                  /\ UNCHANGED <<calls, retrieverVars>>
             ELSE /\ qpc' = "retrieving"
                  /\ calls' = <<"retrieve">>
                  /\ RetrieveEnter(req.query, [given |-> TRUE, k |-> req.top_k])
                  /\ UNCHANGED status
    /\ UNCHANGED <<q_documents, handed, sources>>
    /\ UNCHANGED <<chunkerVars, batchVars, concVars, uploadVars, rankVars, filterVars>>

\* retriever.retrieve has returned or raised (lines 164-168, 221-223)
QueryRetrieved ==
    /\ qpc = "retrieving"
    /\ tpc \in {"returned", "raised"}
    /\ IF tpc = "raised"
       THEN /\ qpc' = "error"
            /\ status' = 500
            /\ UNCHANGED q_documents
       ELSE /\ qpc' = "retrieved"
            /\ q_documents' = retrieved
            /\ UNCHANGED status
    /\ UNCHANGED <<request, synthesizer, handed, calls, sources>>
    /\ UNCHANGED <<chunkerVars, batchVars, concVars, uploadVars, rankVars, filterVars, retrieverVars>>

FilterRequestedAboveOne(req) == req.similarity_threshold > 4

\* request.similarity_threshold > 0 (line 172)
FilterRequested(req) == req.similarity_threshold > 0

\* the threshold step (lines 172-175)
QueryFilter ==
    /\ qpc = "retrieved"
    /\ IF FilterRequested(request)
       THEN /\ q_documents' = FilterByThreshold(q_documents, request.similarity_threshold)
            /\ calls' = Append(calls, "filter")
       ELSE UNCHANGED <<q_documents, calls>>
    /\ qpc' = "filtered"
    /\ UNCHANGED <<request, synthesizer, handed, sources, status>>
    /\ UNCHANGED <<chunkerVars, batchVars, concVars, uploadVars, rankVars, filterVars, retrieverVars>>

\* documents = ranker.rank(documents, query=request.query) (line 178)
QueryRank ==
    /\ qpc = "filtered"
    /\ handed' = q_documents
    /\ q_documents' = RankUnlimited(ranker.strategy, q_documents)
    /\ calls' = Append(calls, "rank")
    /\ qpc' = "ranked"
    /\ UNCHANGED <<request, synthesizer, sources, status>>
    /\ UNCHANGED <<chunkerVars, batchVars, concVars, uploadVars, rankVars, filterVars, retrieverVars>>

\* the SourceDocument list (lines 181-188)
Sources(docs) ==
    [i \in 1..Len(docs) |-> [content |-> docs[i].content, score |-> docs[i].score]]

\* `if request.use_llm and synthesizer:` (line 195)
SynthesisRequested(req, synth) == req.use_llm /\ synth

\* sources, the optional synthesis, which may raise, and the response
\* (lines 181-223)
QueryRespond ==
    /\ qpc = "ranked"
    /\ sources' = Sources(q_documents)
    /\ IF SynthesisRequested(request, synthesizer)
       THEN /\ calls' = Append(calls, "synthesize")
            /\ \E ok \in BOOLEAN :
                  /\ qpc' = IF ok THEN "responded" ELSE "error"
                  /\ status' = IF ok THEN 200 ELSE 500
       ELSE /\ qpc' = "responded"
            /\ status' = 200
            /\ UNCHANGED calls
    /\ UNCHANGED <<request, synthesizer, q_documents, handed>>
    /\ UNCHANGED <<chunkerVars, batchVars, concVars, uploadVars, rankVars, filterVars, retrieverVars>>

\* ---------------------------------------------------------- concurrent calls
\* Two calls run on one DocumentChunker and one DocumentRanker. Every name the
\* methods assign (chunks, current_chunk, current_size, selected, remaining,
\* the loop variables) is a local of the call, so it lives in the call's
\* frame; self.chunk_size, self.chunk_overlap and self.strategy are only read.

\* the texts and document lists given to the concurrent calls
ConcTexts == {<<"a", ".", " ", "a", ".", " ", "a">>,
              <<"a", "\n", "\n", ".", "\n", "\n", "a">>,
              <<"a", "a", "a", "a", "\n", "\n", "a", ".">>,
              <<".", " ", "a">>}
ConcDocLists == {<<[content |-> <<"a">>, score |-> 3], [content |-> <<"a">>, score |-> 3],
                   [content |-> <<"A", " ", "b">>, score |-> 2]>>,
                 <<[content |-> <<>>, score |-> 1], [content |-> <<"a">>, score |-> 2]>>,
                 <<[content |-> <<"a">>, score |-> 1]>>}

\* _chunk_by_character(t) from window start st on, as one computation
RECURSIVE CharChunksFrom(_, _, _, _, _)
CharChunksFrom(t, st, chunk_size, chunk_overlap, fuel) ==
    IF st >= Len(t) \/ fuel = 0 THEN <<>>
    ELSE LET end == WindowEnd(t, st, chunk_size)
             chunk == Strip(PySlice(t, st, end))
         IN  (IF chunk # <<>> THEN <<chunk>> ELSE <<>>)
             \o CharChunksFrom(t, NextStart(end, chunk_overlap), chunk_size,
                               chunk_overlap, fuel - 1)

\* the list chunk() builds from the chunks (lines 67-74), metadata left out
Wrapped(cs) == [i \in 1..Len(cs) |-> [content |-> cs[i], chunk_index |-> EnumIndex(i)]]

\* chunks after `if current_chunk: chunks.append(sep.join(current_chunk))`
FrameWithRemaining(f, sep) ==
    IF f.current_chunk # <<>> THEN Append(f.chunks, Join(f.current_chunk, sep)) ELSE f.chunks

\* chunk(text) up to the strategy's loop (lines 52-64 and the split)
ChunkEntry(f, cfg) ==
    IF IsBlank(f.arg) THEN [f EXCEPT !.pc = "done", !.out = <<>>]
    ELSE CASE cfg.strategy = "sentence" ->
                [f EXCEPT !.pc = "sentence", !.items = SplitSentences(f.arg)]
           [] cfg.strategy = "paragraph" ->
                [f EXCEPT !.pc = "paragraph", !.items = SplitParagraphs(f.arg)]
           [] OTHER ->
                [f EXCEPT !.pc = "done",
                          !.out = Wrapped(CharChunksFrom(f.arg, 0, cfg.chunk_size,
                                                         cfg.chunk_overlap, MaxChunks))]

\* one pass of the for loop of _chunk_by_sentence, or its end and the return
SentenceFrameStep(f, cfg) ==
    IF f.pos < Len(f.items)
    THEN LET sentence == f.items[f.pos + 1]
             overflow == f.current_size + Len(sentence) > cfg.chunk_size
                         /\ f.current_chunk # <<>>
             kept == IF overflow
                     THEN LastN(f.current_chunk, SentenceCarry(f.current_chunk, cfg.chunk_overlap))
                     ELSE f.current_chunk
         IN  [f EXCEPT !.pos = f.pos + 1,
                       !.chunks = IF overflow
                                  THEN Append(f.chunks, Join(f.current_chunk, <<" ">>))
                                  ELSE f.chunks,
                       !.current_chunk = Append(kept, sentence),
                       !.current_size = (IF overflow THEN SumLen(kept) ELSE f.current_size)
                                        + Len(sentence)]
    ELSE [f EXCEPT !.pc = "done", !.out = Wrapped(FrameWithRemaining(f, <<" ">>))]

\* one pass of the for loop of _chunk_by_paragraph, or its end and the return
ParagraphFrameStep(f, cfg) ==
    IF f.pos < Len(f.items)
    THEN LET paragraph == Strip(f.items[f.pos + 1])
             para_size == Len(paragraph)
             overflow == f.current_size + para_size > cfg.chunk_size
                         /\ f.current_chunk # <<>>
             kept == IF overflow
                     THEN LastN(f.current_chunk, ParagraphCarry(f.current_size, cfg.chunk_overlap))
                     ELSE f.current_chunk
         IN  IF paragraph = <<>> THEN [f EXCEPT !.pos = f.pos + 1]
             ELSE IF para_size > cfg.chunk_size
             THEN [f EXCEPT !.pos = f.pos + 1,
                            !.chunks = FrameWithRemaining(f, <<"\n", "\n">>)
                                       \o CharChunksFrom(paragraph, 0, cfg.chunk_size,
                                                         cfg.chunk_overlap, MaxChunks),
                            !.current_chunk = <<>>,
                            !.current_size = 0]
             ELSE [f EXCEPT !.pos = f.pos + 1,
                            !.chunks = IF overflow
                                       THEN Append(f.chunks, Join(f.current_chunk, <<"\n", "\n">>))
                                       ELSE f.chunks,
                            !.current_chunk = Append(kept, paragraph),
                            !.current_size = (IF overflow THEN SumLen(kept) ELSE f.current_size)
                                             + para_size]
    ELSE [f EXCEPT !.pc = "done", !.out = Wrapped(FrameWithRemaining(f, <<"\n", "\n">>))]

\* rank(documents) up to the loop of _rank_by_mmr; the other strategies have
\* no loop
RankEntry(f, strategy) ==
    IF f.arg = <<>> THEN [f EXCEPT !.pc = "done", !.out = <<>>]
    ELSE IF strategy = "mmr" /\ Len(f.arg) > 1
    THEN LET sorted_docs == SortedByScore(f.arg)
         IN  [f EXCEPT !.pc = "mmr", !.selected = <<sorted_docs[1]>>,
                       !.remaining = Tail(sorted_docs)]
    ELSE [f EXCEPT !.pc = "done", !.out = RankAll(strategy, f.arg)]

\* one pass of the while loop of _rank_by_mmr, or its end and the return
MMRFrameStep(f) ==
    IF f.remaining # <<>> /\ Len(f.selected) < Len(f.arg)
    THEN LET best_doc == f.remaining[BestIndex(f.remaining, f.selected)]
         IN  [f EXCEPT !.selected = Append(f.selected, best_doc),
                       !.remaining = RemoveFirst(f.remaining, best_doc)]
    ELSE [f EXCEPT !.pc = "done", !.out = f.selected]

\* the next step of the call that owns frame f
FrameStep(f, cfg, strategy) ==
    CASE f.pc = "start" /\ f.kind = "chunk" -> ChunkEntry(f, cfg)
      [] f.pc = "start" /\ f.kind = "rank" -> RankEntry(f, strategy)
      [] f.pc = "sentence" -> SentenceFrameStep(f, cfg)
      [] f.pc = "paragraph" -> ParagraphFrameStep(f, cfg)
      [] f.pc = "mmr" -> MMRFrameStep(f)
      [] OTHER -> f

FrameOfShared(c) == 1

\* the frame that holds the locals of call c: its own
FrameOf(c) == c

\* a call of chunk(text) or of rank(documents) begins, both instances being
\* constructed
ConcCall(texts, lists) ==
    /\ \E c \in Calls :
          /\ cpc[c] = "idle"
          /\ pc = "ready"
          /\ rpc = "ready"
          /\ \E kind \in {"chunk", "rank"} :
                /\ \E arg \in (IF kind = "chunk" THEN texts ELSE lists) :
                      /\ cargs' = [cargs EXCEPT ![c] = [kind |-> kind, arg |-> arg]]
                      /\ frames' = [frames EXCEPT ![FrameOf(c)] =
                                       [IdleFrame EXCEPT !.pc = "start", !.kind = kind,
                                                         !.arg = arg]]
          /\ cpc' = [cpc EXCEPT ![c] = "running"]
    /\ UNCHANGED outs
    /\ UNCHANGED <<chunkerVars, batchVars, uploadVars, rankVars, filterVars,
                   retrieverVars, queryVars>>

\* a running call takes its next step; the step that ends the loop returns
ConcStep ==
    /\ \E c \in Calls :
          /\ cpc[c] = "running"
          /\ LET g == FrameStep(frames[FrameOf(c)], self, ranker.strategy)
             IN  /\ frames' = [frames EXCEPT ![FrameOf(c)] = g]
                 /\ IF g.pc = "done"
                    THEN /\ cpc' = [cpc EXCEPT ![c] = "returned"]
                         /\ outs' = [outs EXCEPT ![c] = g.out]
                    ELSE UNCHANGED <<cpc, outs>>
    /\ UNCHANGED cargs
    /\ UNCHANGED <<chunkerVars, batchVars, uploadVars, rankVars, filterVars,
                   retrieverVars, queryVars>>

\* --------------------------------------------------------- specifications
\* the chunker, called without metadata
Next ==
    \/ Construct(1..MaxChunkSize, Strategies)
    \/ ChunkCall(Texts(MaxTextLen), {NoMetadata})
    \/ CharStep
    \/ CharReturnToChunk
    \/ CharReturnToParagraph
    \/ SentenceStep
    \/ SentenceReturn
    \/ ParagraphStep
    \/ ParagraphReturn

Spec == Init /\ [][Next]_vars

\* the chunker, called with and without metadata, and the caller writing to
\* the dicts afterwards
NextMeta ==
    \/ Construct(1..MaxChunkSize, Strategies)
    \/ ChunkCall(Texts(MaxMetaTextLen), Metadatas)
    \/ CharStep
    \/ CharReturnToChunk
    \/ CharReturnToParagraph
    \/ SentenceStep
    \/ SentenceReturn
    \/ ParagraphStep
    \/ ParagraphReturn
    \/ SetAttribute

SpecMeta == Init /\ [][NextMeta]_vars

\* the character strategy alone, on longer texts and larger windows
NextChar ==
    \/ Construct(1..MaxCharChunkSize, {"character"})
    \/ ChunkCall(Texts(MaxCharTextLen), {NoMetadata})
    \/ CharStep
    \/ CharReturnToChunk

SpecChar == Init /\ [][NextChar]_vars

\* the chunk sizes at which a break point can shorten a window: below 5 a
\* break point past chunk_size // 2 is the last position of the window
WindowSizes == (MaxCharChunkSize - 1)..MaxCharChunkSize

\* the constructor, the overlaps drawn from 0 up to the largest size
ConstructWindow == ConstructWith(WindowSizes, 0..MaxCharChunkSize, {"character"})

\* the character strategy with windows a break point can shorten
NextWindow ==
    \/ ConstructWindow
    \/ ChunkCall(Texts(MaxCharTextLen), {NoMetadata})
    \/ CharStep
    \/ CharReturnToChunk

SpecWindow == Init /\ [][NextWindow]_vars

\* the ranker
NextRank ==
    \/ NewRanker(RankStrategies)
    \/ BuildDocuments(DocLists(MaxDocs), {EmptyMap})
    \/ Rank(Limits(MaxDocs))

SpecRank == Init /\ [][NextRank]_vars

\* the ranker, ranking and filtering
NextFilter ==
    \/ NewRanker(RankStrategies)
    \/ BuildDocuments(DocLists(MaxFilterDocs), {EmptyMap, {<<"source", "t">>}})
    \/ Rank(Limits(MaxFilterDocs))
    \/ Filter(Thresholds)
    \/ FilterAgain

SpecFilter == Init /\ [][NextFilter]_vars

\* one retrieve call
NextRetrieve ==
    \/ Retrieve(Texts(MaxQueryLen), RetrieveLimits)
    \/ Embed
    \/ Search(DocLists(MaxRetrieved))

SpecRetrieve == Init /\ [][NextRetrieve]_vars

\* one retrieve_batch call
NextBatch ==
    \/ BatchStart(BatchQueryLists(MaxBatch), RetrieveLimits)
    \/ BatchNext
    \/ Embed
    \/ Search(BatchFound)
    \/ BatchCollect

SpecBatch == Init /\ [][NextBatch]_vars

\* two concurrent calls on one chunker and one ranker
NextConc ==
    \/ Construct(1..MaxChunkSize, Strategies)
    \/ NewRanker(RankStrategies)
    \/ ConcCall(ConcTexts, ConcDocLists)
    \/ ConcStep

SpecConc == Init /\ [][NextConc]_vars

\* ------------------------------------------------- routes.upload_documents
\* The handler is a coroutine. The event loop runs one call at a time and can
\* switch to another call, or cancel the call, only where the handler awaits:
\* at `content = await file.read()` (line 77). Every name the handler assigns
\* is a local of the call.
FileNames == {"f", "g"}
FileLists(n) == UNION {[1..k -> FileNames] : k \in 0..n}

\* the entry f"{file.filename}: {msg}" of errors
ErrorEntry(name, msg) == [file |-> name, msg |-> msg]

\* what no step of call c changes in the other services
UploadFrame ==
    UNCHANGED <<chunkerVars, batchVars, concVars, rankVars, filterVars,
                retrieverVars, queryVars>>

\* the files of the request that arrives beside the first one
OtherFileLists == {<<>>, <<"g">>}

\* the handler is called (lines 55-68); without a parser, chunker, embedder
\* or vector store in the state it raises HTTPException(500)
UploadStart(fileLists, otherLists) ==
    /\ loop_owner = 0
    /\ \E c \in Calls, initialised \in BOOLEAN :
       \E files \in (IF c = 1 THEN fileLists ELSE otherLists) :
          /\ upc[c] = "idle"
          /\ up_files' = [up_files EXCEPT ![c] = files]
          /\ upc' = [upc EXCEPT ![c] = IF initialised THEN "loop" ELSE "HTTP500"]
          /\ loop_owner' = IF initialised THEN c ELSE 0
    /\ UNCHANGED <<up_pos, up_chunks, processed_files, total_chunks, up_errors,
                   up_attempts, up_response>>
    /\ UploadFrame

\* the for loop takes the next file and enters the try block (lines 72-73)
UploadNext ==
    /\ \E c \in Calls :
          /\ loop_owner = c
          /\ upc[c] = "loop"
          /\ up_pos[c] < Len(up_files[c])
          /\ up_pos' = [up_pos EXCEPT ![c] = up_pos[c] + 1]
          /\ up_attempts' = [up_attempts EXCEPT ![c] = Append(up_attempts[c], up_pos[c] + 1)]
          /\ upc' = [upc EXCEPT ![c] = "saving"]
    /\ UNCHANGED <<loop_owner, up_files, up_chunks, processed_files, total_chunks,
                   up_errors, up_response>>
    /\ UploadFrame

ResumeAtEnd(p, n) == n

\* the position the for loop resumes at after the except clause (lines
\* 118-121): the handler is inside the loop body, the loop goes on
ResumeAt(p, n) == p

\* the except clause of call c (lines 118-121) after a failure at stage `at`
UploadFailed(c, at) ==
    /\ upc' = [upc EXCEPT ![c] = "loop"]
    /\ up_pos' = [up_pos EXCEPT ![c] = ResumeAt(up_pos[c], Len(up_files[c]))]
    /\ up_errors' = [up_errors EXCEPT ![c] =
                        Append(up_errors[c], ErrorEntry(up_files[c][up_pos[c]], at))]

\* the path of the temporary file is built, which may raise, and the handler
\* awaits file.read(): the event loop is free (lines 75-77)
UploadAwaitRead ==
    /\ \E c \in Calls, ok \in BOOLEAN :
          /\ loop_owner = c
          /\ upc[c] = "saving"
          /\ IF ok
             THEN /\ upc' = [upc EXCEPT ![c] = "reading"]
                  /\ loop_owner' = 0
                  /\ UNCHANGED <<up_pos, up_errors>>
             ELSE /\ UploadFailed(c, "saving")
                  /\ UNCHANGED loop_owner
    /\ UNCHANGED <<up_files, up_chunks, processed_files, total_chunks, up_attempts,
                   up_response>>
    /\ UploadFrame

\* the event loop resumes a call suspended at line 77: file.read() returns
\* and the content is written (lines 77-80), or one of them raises, or the
\* task was cancelled: asyncio.CancelledError is no Exception, the except
\* clause of line 118 does not catch it and the handler ends without a
\* response
UploadReadResume ==
    /\ loop_owner = 0
    /\ \E c \in Calls, outcome \in {"returns", "raises", "cancelled"} :
          /\ upc[c] = "reading"
          /\ CASE outcome = "returns" ->
                    /\ upc' = [upc EXCEPT ![c] = "parsing"]
                    /\ loop_owner' = c
                    /\ UNCHANGED <<up_pos, up_errors>>
               [] outcome = "raises" ->
                    /\ UploadFailed(c, "saving")
                    /\ loop_owner' = c
               [] OTHER ->
                    /\ upc' = [upc EXCEPT ![c] = "cancelled"]
                    /\ UNCHANGED <<loop_owner, up_pos, up_errors>>
    /\ UNCHANGED <<up_files, up_chunks, processed_files, total_chunks, up_attempts,
                   up_response>>
    /\ UploadFrame

\* a stage of the try block that only returns or raises: parser.parse (line
\* 84) and embedder.embed_batch (lines 97-98)
UploadStage(at, next) ==
    /\ \E c \in Calls, ok \in BOOLEAN :
          /\ loop_owner = c
          /\ upc[c] = at
          /\ IF ok
             THEN /\ upc' = [upc EXCEPT ![c] = next]
                  /\ UNCHANGED <<up_pos, up_errors>>
             ELSE UploadFailed(c, at)
    /\ UNCHANGED <<loop_owner, up_files, up_chunks, processed_files, total_chunks,
                   up_attempts, up_response>>
    /\ UploadFrame

UploadParse == UploadStage("parsing", "chunking")
UploadEmbed == UploadStage("embedding", "inserting")

\* chunker.chunk returns n chunks, which rebinds the local chunks, or raises,
\* which leaves it as it was; no chunks is recorded as an error and the loop
\* continues (lines 87-95)
UploadChunk ==
    /\ \E c \in Calls :
          /\ loop_owner = c
          /\ upc[c] = "chunking"
          /\ \/ \E n \in 1..MaxUploadChunks :
                   /\ up_chunks' = [up_chunks EXCEPT ![c] = n]
                   /\ upc' = [upc EXCEPT ![c] = "embedding"]
                   /\ UNCHANGED <<up_pos, up_errors>>
             \/ /\ upc' = [upc EXCEPT ![c] = "loop"]
                /\ up_errors' = [up_errors EXCEPT ![c] =
                                    Append(up_errors[c], ErrorEntry(up_files[c][up_pos[c]],
                                                                    "No content extracted"))]
                /\ up_chunks' = [up_chunks EXCEPT ![c] = 0]
                /\ UNCHANGED up_pos
             \/ /\ UploadFailed(c, "chunking")
                /\ UNCHANGED up_chunks
    /\ UNCHANGED <<loop_owner, up_files, processed_files, total_chunks, up_attempts,
                   up_response>>
    /\ UploadFrame

\* vector_store.add_documents returns and the file is counted, or it raises
\* (lines 104-112)
UploadInsert ==
    /\ \E c \in Calls, ok \in BOOLEAN :
          /\ loop_owner = c
          /\ upc[c] = "inserting"
          /\ IF ok
             THEN /\ processed_files' = [processed_files EXCEPT ![c] = processed_files[c] + 1]
                  /\ total_chunks' = [total_chunks EXCEPT ![c] = total_chunks[c] + up_chunks[c]]
                  /\ upc' = [upc EXCEPT ![c] = "loop"]
                  /\ UNCHANGED <<up_pos, up_errors>>
             ELSE /\ UploadFailed(c, "inserting")
                  /\ UNCHANGED <<processed_files, total_chunks>>
    /\ UNCHANGED <<loop_owner, up_files, up_chunks, up_attempts, up_response>>
    /\ UploadFrame

\* the loop is over and the response is built (lines 123-132)
UploadRespond ==
    /\ \E c \in Calls :
          /\ loop_owner = c
          /\ upc[c] = "loop"
          /\ up_pos[c] >= Len(up_files[c])
          /\ up_response' = [up_response EXCEPT ![c] =
                                [status |-> IF processed_files[c] > 0 THEN "success"
                                                                      ELSE "failed",
                                 files_processed |-> processed_files[c],
                                 chunks_created |-> total_chunks[c],
                                 errors |-> up_errors[c]]]
          /\ upc' = [upc EXCEPT ![c] = "returned"]
    /\ loop_owner' = 0
    /\ UNCHANGED <<up_files, up_pos, up_chunks, processed_files, total_chunks, up_errors,
                   up_attempts>>
    /\ UploadFrame

\* two upload requests on one event loop
NextUpload ==
    \/ UploadStart(FileLists(MaxFiles), OtherFileLists)
    \/ UploadNext
    \/ UploadAwaitRead
    \/ UploadReadResume
    \/ UploadParse
    \/ UploadChunk
    \/ UploadEmbed
    \/ UploadInsert
    \/ UploadRespond

SpecUpload == Init /\ [][NextUpload]_vars

\* strategy names neither class knows (the comparisons are case-sensitive)
UnknownChunkers == {"semantic", "Character"}
UnknownRankers == {"bm25", "MMR"}

\* a chunker with an unknown strategy is built, no ranker being in use
ConstructUnknown ==
    /\ rpc = "new"
    /\ Construct(1..MaxChunkSize, UnknownChunkers)

\* a ranker with an unknown strategy is built, no chunker being in use
NewUnknownRanker ==
    /\ pc = "new"
    /\ NewRanker(UnknownRankers)

\* a chunker or a ranker configured with an unknown strategy
NextUnknown ==
    \/ ConstructUnknown
    \/ ChunkCall(Texts(MaxTextLen), {NoMetadata})
    \/ CharStep
    \/ CharReturnToChunk
    \/ NewUnknownRanker
    \/ BuildDocuments(DocLists(MaxDocs), {EmptyMap})
    \/ Rank(Limits(MaxDocs))

SpecUnknown == Init /\ [][NextUnknown]_vars

\* one request to /api/query, the application's ranker being built with
\* strategy "similarity" (main.py line 67)
NextQuery ==
    \/ NewRanker({"similarity"})
    \/ QueryStart(Requests)
    \/ Embed
    \/ Search(DocLists(MaxRetrieved))
    \/ QueryRetrieved
    \/ QueryFilter
    \/ QueryRank
    \/ QueryRespond

SpecQuery == Init /\ [][NextQuery]_vars

\* ------------------------------------------------------------- properties
AllWhitespace(t) == \A i \in 1..Len(t) : t[i] \in Whitespace

\* the input positions two emitted chunks were cut from do not meet
Disjoint(o1, o2) ==
    IF o1.kind = "window" /\ o2.kind = "window"
    THEN \/ o1.ids # o2.ids
         \/ Max2(o1.lo, o2.lo) >= Min2(o1.hi, o2.hi)
    ELSE {o1.ids[i] : i \in 1..Len(o1.ids)} \cap {o2.ids[i] : i \in 1..Len(o2.ids)} = {}

\* C1: in the character strategy every loop iteration moves the window start
\* strictly forward (so the loop terminates).
C1_ForwardProgress == [][CharStep => start' > start]_vars

\* C2: no returned chunk has empty content, whatever the strategy.
C2_NoEmptyContent == \A i \in 1..Len(result) : result[i].content # <<>>

\* C3: with the sentence and paragraph strategies every returned chunk is at
\* most chunk_size long, except a chunk that is one single sentence which is
\* itself longer than chunk_size.
C3_SizeBound ==
    (pc = "done" /\ self.strategy \in {"sentence", "paragraph"}) =>
        \A i \in 1..Len(result) :
            \/ Len(result[i].content) <= self.chunk_size
            \/ /\ self.strategy = "sentence"
               /\ Len(origin[i].ids) = 1
               /\ Len(sentences[origin[i].ids[1]]) > self.chunk_size

\* C4: with the character strategy every collected and every returned chunk is
\* at most chunk_size long.
C4_CharSizeBound ==
    (self.strategy = "character") =>
        /\ \A i \in 1..Len(char_chunks) : Len(char_chunks[i]) <= self.chunk_size
        /\ \A i \in 1..Len(result) : Len(result[i].content) <= self.chunk_size

\* a call returned a window shortened at a break point and a window cut at chunk_size
C4_Witness ==
    /\ pc = "done"
    /\ self.strategy = "character"
    /\ \E i \in 1..Len(char_windows) :
          /\ char_windows[i].hi < Len(text)
          /\ char_windows[i].hi - char_windows[i].lo < self.chunk_size
    /\ \E i \in 1..Len(result) : Len(result[i].content) = self.chunk_size

\* C5: with chunk_overlap = 0 no character position, sentence or paragraph of
\* the input is in two returned chunks.
C5_DisjointTiling ==
    (pc = "done" /\ self.chunk_overlap = 0) =>
        \A i, j \in 1..Len(origin) : i < j => Disjoint(origin[i], origin[j])

\* C6: construction fails exactly when chunk_overlap >= chunk_size.
C6_Construction ==
    (pc # "new") => ((pc = "ValueError") <=> (self.chunk_overlap >= self.chunk_size))

\* construction was refused for chunk_overlap = chunk_size
C6_Witness == pc = "ValueError" /\ self.chunk_overlap = self.chunk_size

\* C7: a call with an empty or all-whitespace text returns the empty list at once.
C7_BlankText ==
    (pc \notin {"new", "ValueError", "ready"} /\ AllWhitespace(text)) =>
        (pc = "done" /\ result = <<>>)

\* a non-empty all-whitespace text was chunked by the sentence strategy
C7_Witness ==
    /\ pc = "done"
    /\ self.strategy = "sentence"
    /\ Len(text) > 1
    /\ AllWhitespace(text)
    /\ result = <<>>

\* C8: the chunk_index values of the returned chunks are 0, 1, ..., n-1 in order.
C8_SequenceIndex == \A i \in 1..Len(result) : result[i].chunk_index = i - 1

\* a call returned at least three chunks
C8_Witness == pc = "done" /\ Len(result) >= 3

\* the mapping seen through the metadata argument / through the i-th chunk
CallerView(hp) == IF metadata # 0 THEN hp[metadata] ELSE EmptyMap
UnitView(hp, i) == hp[result[i].metadata]

C9_EqualOnReturn ==
    (pc = "done" /\ mutations = 0) =>
        \A i \in 1..Len(result) : UnitView(heap, i) = CallerView(heap)

C9_OneViewPerWrite ==
    (pc = "done" /\ pc' = "done") =>
        LET changed == {i \in 1..Len(result) : UnitView(heap', i) # UnitView(heap, i)}
            caller == IF CallerView(heap') # CallerView(heap) THEN 1 ELSE 0
        IN  Cardinality(changed) + caller <= 1

\* C9: every returned chunk carries a mapping equal to the caller's (empty when
\* none was given), and a write to one mapping shows through no other chunk
\* and not through the caller's mapping.
C9_IndependentAttributes == []C9_EqualOnReturn /\ [][C9_OneViewPerWrite]_vars

\* after a write to one chunk's mapping, that chunk differs from the caller's
\* non-empty mapping and from another chunk of the same call
C9_Witness ==
    /\ pc = "done"
    /\ mutations = 1
    /\ Len(result) >= 2
    /\ CallerView(heap) # EmptyMap
    /\ UnitView(heap, 1) # CallerView(heap)
    /\ UnitView(heap, 2) = CallerView(heap)

\* how often d occurs in seq
Count(seq, d) == Cardinality({i \in 1..Len(seq) : seq[i] = d})

\* C10: without top_k, rank returns a permutation of its input (same documents,
\* same multiplicities); with top_k it never returns more than it was given.
C10_RankPermutation ==
    (rpc = "returned") =>
        /\ Len(ranked) <= Len(documents)
        /\ ~top_k.given =>
              /\ Len(ranked) = Len(documents)
              /\ \A d \in DocPool : Count(ranked, d) = Count(documents, d)

\* mmr reordered, without top_k, a list that holds the same document twice
C10_Witness ==
    /\ rpc = "returned"
    /\ ranker.strategy = "mmr"
    /\ ~top_k.given
    /\ ranked # documents
    /\ \E i, j \in 1..Len(documents) : i < j /\ documents[i] = documents[j]

\* the scores of seq never rise
Descending(seq) == \A i \in 1..(Len(seq) - 1) : seq[i].score >= seq[i + 1].score

\* the largest score in a non-empty seq
TopScore(seq) == SetMax({seq[i].score : i \in 1..Len(seq)})

\* sort descending, upper half = first ceil(n/2), lower half = the rest, interleave
ClaimedDiversity(docs) ==
    LET sorted_docs == SortedByScore(docs)
        upper == (Len(docs) + 1) \div 2
    IN  Interleave(SubSeq(sorted_docs, 1, upper), SubSeq(sorted_docs, upper + 1, Len(docs)))

\* C11: the diversity ranking is the interleave of the upper half (first
\* ceil(n/2) of the descending sort) with the lower half.
C11_DiversityInterleave ==
    (rpc = "returned" /\ ranker.strategy = "diversity" /\ ~top_k.given) =>
        ranked = ClaimedDiversity(documents)

\* C12: the first ranked document has the largest score of the input, for
\* every strategy and every input order.
C12_BestFirst ==
    (rpc = "returned" /\ documents # <<>> /\ (top_k.given => top_k.k >= 1)) =>
        (ranked # <<>> /\ ranked[1].score = TopScore(documents))

\* the documents of seq whose score is sc, in order
WithScore(seq, sc) == SelectSeq(seq, LAMBDA d : d.score = sc)

\* C13: the similarity ranking is in descending score order and documents of
\* equal score keep the relative order they had in the input.
C13_StableSimilarity ==
    (rpc = "returned" /\ ranker.strategy = "similarity" /\ ~top_k.given) =>
        /\ Descending(ranked)
        /\ \A sc \in RankScores : WithScore(ranked, sc) = WithScore(documents, sc)

\* similarity reordered a list in which two different documents share a score
C13_Witness ==
    /\ rpc = "returned"
    /\ ranker.strategy = "similarity"
    /\ ~top_k.given
    /\ ranked # documents
    /\ \E i, j \in 1..Len(documents) :
          i < j /\ documents[i].score = documents[j].score /\ documents[i] # documents[j]

\* Jaccard similarity of the lower-cased word sets of two contents, as a
\* fraction [num, den]; 0 when either set is empty
Jaccard(c1, c2) ==
    IF WordSet(c1) = {} \/ WordSet(c2) = {} THEN [num |-> 0, den |-> 1]
    ELSE [num |-> Cardinality(WordSet(c1) \cap WordSet(c2)),
          den |-> Cardinality(WordSet(c1) \cup WordSet(c2))]

\* m: the greatest Jaccard similarity of d with a selected candidate
MaxSimilarity(d, sel) ==
    LET sims == {Jaccard(d.content, sel[k].content) : k \in 1..Len(sel)}
    IN  CHOOSE m \in sims : \A q \in sims : q.num * m.den <= m.num * q.den

\* 0.5 * relevance - 0.5 * m of a is at least that of b (relevance = score / 4)
MMRAtLeast(a, b, sel) ==
    LET ma == MaxSimilarity(a, sel)
        mb == MaxSimilarity(b, sel)
    IN  (a.score * ma.den - 4 * ma.num) * mb.den >= (b.score * mb.den - 4 * mb.num) * ma.den

\* the candidates still to place once sel[1..k] are taken out of sorted, one
\* occurrence each
RECURSIVE RemainingAfter(_, _, _)
RemainingAfter(sorted, sel, k) ==
    IF k = 0 THEN sorted ELSE RemoveFirst(RemainingAfter(sorted, sel, k - 1), sel[k])

\* the positions of rem whose MMR score is maximal
Maximisers(rem, sel) ==
    {i \in 1..Len(rem) : \A j \in 1..Len(rem) : MMRAtLeast(rem[i], rem[j], sel)}

\* C14: with the mmr strategy every output position after the first holds a
\* remaining candidate that maximises 0.5 * relevance - 0.5 * m, and among the
\* maximisers the one that comes first in the remaining list, which is kept
\* in descending-relevance order
C14_MMRGreedy ==
    (rpc = "returned" /\ ranker.strategy = "mmr" /\ ~top_k.given /\ Len(documents) >= 2) =>
        /\ Len(ranked) = Len(documents)
        /\ \A p \in 2..Len(ranked) :
              LET sel == SubSeq(ranked, 1, p - 1)
                  rem == RemainingAfter(SortedByScore(documents), sel, p - 1)
              IN  /\ Descending(rem)
                  /\ ranked[p] = rem[SetMin(Maximisers(rem, sel))]

C14_Witness ==
    /\ rpc = "returned"
    /\ ranker.strategy = "mmr"
    /\ ~top_k.given
    /\ Len(ranked) >= 3
    /\ ranked[2] # SortedByScore(documents)[2]
    /\ ranked[2].score = ranked[3].score

\* C15: a limit k below the number of candidates gives exactly k items, the
\* first k of the ranking the same call returns without a limit
C15_TruncateAfterRanking ==
    (rpc = "returned" /\ top_k.given /\ top_k.k < Len(documents)) =>
        /\ Len(ranked) = top_k.k
        /\ ranked = SubSeq(RankUnlimited(ranker.strategy, documents), 1, top_k.k)

C15_Witness ==
    /\ rpc = "returned"
    /\ ranker.strategy = "mmr"
    /\ top_k.given
    /\ top_k.k >= 1
    /\ top_k.k < Len(documents)
    /\ ranked # SubSeq(SortedByScore(documents), 1, top_k.k)

\* the positions of docs whose relevance reaches th
KeptPositions(docs, th) == {i \in 1..Len(docs) : docs[i].score >= th}

\* the j-th smallest element of a set of positions
NthPosition(positions, j) ==
    CHOOSE i \in positions : Cardinality({k \in positions : k <= i}) = j

\* C16: filter_by_threshold returns exactly the candidates whose relevance is
\* at least the threshold, those equal to it included, in their input order
C16_FilterExact ==
    rpc = "filtered" =>
        /\ Len(filtered) = Cardinality(KeptPositions(documents, threshold))
        /\ \A j \in 1..Len(filtered) :
              filtered[j] = documents[NthPosition(KeptPositions(documents, threshold), j)]

C16_Witness ==
    /\ rpc = "filtered"
    /\ \E i \in 1..Len(filtered) : filtered[i].score = threshold
    /\ Len(filtered) < Len(documents)
    /\ ~Descending(filtered)

\* C17: filtering the result of filter_by_threshold again with the same
\* threshold returns that result
C17_FilterIdempotent == rpc = "refiltered" => refiltered = filtered

C17_Witness ==
    /\ rpc = "refiltered"
    /\ refiltered # <<>>
    /\ Len(filtered) < Len(documents)
    /\ documents[1].score < threshold

\* a call of rank() or of filter_by_threshold() returns in this step
RankerCallReturns == rpc' # rpc /\ rpc' \in {"returned", "filtered", "refiltered"}

\* every list object alive before the step holds the same references in the
\* same order after it, and every dict object alive before the step has the
\* same content, score and metadata after it
ObjectsKept ==
    /\ \A l \in 1..Len(objects.lists) : objects'.lists[l] = objects.lists[l]
    /\ \A d \in 1..Len(objects.dicts) : objects'.dicts[d] = objects.dicts[d]

\* the list object the last call returned holds the candidates that call
\* returned
ReturnedHoldsResult ==
    /\ rpc = "returned" => DocsOf(objects, returned) = ranked
    /\ rpc = "filtered" => DocsOf(objects, returned) = filtered
    /\ rpc = "refiltered" => DocsOf(objects, returned) = refiltered

\* C18: rank() (every strategy) and filter_by_threshold() leave their input
\* unchanged: the list object the caller passed holds the same candidates in
\* the same order when the call returns, no dict object has another content,
\* score or metadata than before the call, and the candidates handed back are
\* those same dict objects
C18_InputUnchanged ==
    /\ [](rpc \in {"returned", "filtered", "refiltered"} =>
             /\ DocsOf(objects, caller_docs) = documents
             /\ ReturnedHoldsResult)
    /\ [][RankerCallReturns => ObjectsKept]_vars

C18_Witness ==
    /\ rpc = "returned"
    /\ ranker.strategy = "mmr"
    /\ returned # caller_docs
    /\ Len(objects.lists[returned]) = Len(objects.lists[caller_docs])
    /\ objects.lists[returned] # objects.lists[caller_docs]
    /\ objects.lists[caller_docs] = <<1, 2, 3>>
    /\ DocsOf(objects, caller_docs) = documents
    /\ \A d \in 1..Len(objects.dicts) : objects.dicts[d].metadata # EmptyMap

\* the collaborator calls of the handler contain name
Called(name) == \E i \in 1..Len(calls) : calls[i] = name

\* every candidate of docs has relevance at least th
AllAtLeast(docs, th) == \A i \in 1..Len(docs) : docs[i].score >= th

\* C19: with a positive threshold the handler filters the retrieved
\* candidates before it calls the ranker, so the ranker receives no candidate
\* below the threshold and the returned sources hold none; with threshold 0
\* the filter is not called
C19_FilterBeforeRank ==
    /\ (request.similarity_threshold > 0 /\ Called("rank")) =>
          /\ Len(calls) >= 3
          /\ calls[1] = "retrieve" /\ calls[2] = "filter" /\ calls[3] = "rank"
          /\ AllAtLeast(handed, request.similarity_threshold)
    /\ (request.similarity_threshold > 0 /\ status = 200) =>
          AllAtLeast(sources, request.similarity_threshold)
    /\ request.similarity_threshold = 0 => ~Called("filter")

C19_Witness ==
    /\ status = 200
    /\ request.similarity_threshold > 0
    /\ sources # <<>>
    /\ Len(handed) < Len(retrieved)
    /\ ~AllAtLeast(retrieved, request.similarity_threshold)

\* C20: retrieve with an empty or whitespace-only query returns the empty
\* list, and neither the embedder nor the vector store is called
C20_BlankQuery ==
    (tpc # "idle" /\ AllWhitespace(query)) =>
        /\ tpc = "returned"
        /\ retrieved = <<>>
        /\ embed_calls = 0
        /\ search_calls = 0

C20_Witness ==
    /\ tpc = "returned"
    /\ query # <<>>
    /\ AllWhitespace(query)
    /\ retrieved = <<>>

\* C21: one retrieve call invokes the embedder at most once and the vector
\* store at most once, the embedder first; when the embedder raises the
\* vector store is not called, and when either raises the call ends raised,
\* with no result and no further collaborator call
C21_RetrieveFailures ==
    /\ [](/\ embed_calls <= 1
          /\ search_calls <= 1
          /\ collab_log \in {<<>>, <<"embed">>, <<"embed", "search">>}
          /\ Len(collab_log) = embed_calls + search_calls
          /\ failure = "embed" => (search_calls = 0 /\ collab_log = <<"embed">>)
          /\ failure # "none" => (tpc = "raised" /\ retrieved = <<>>)
          /\ tpc = "raised" => failure # "none")
    /\ [][failure # "none" => UNCHANGED <<tpc, retrieved, collab_log, failure>>]_vars

C21_Witness ==
    /\ tpc = "raised"
    /\ failure = "search"
    /\ collab_log = <<"embed", "search">>

\* C22: retrieve_batch returns one list per query, the i-th being what the
\* retrieve call for the i-th query returned, or the empty list when that
\* call raised; the queries are taken in order and a failure stops nothing
C22_BatchResults ==
    /\ Len(batch_log) = Len(batch_results)
    /\ Len(batch_log) <= Len(batch_queries)
    /\ \A i \in 1..Len(batch_log) :
          /\ batch_log[i].query = batch_queries[i]
          /\ batch_results[i] = (IF batch_log[i].raised THEN <<>> ELSE batch_log[i].found)
    /\ bpc = "returned" => Len(batch_results) = Len(batch_queries)

C22_Witness ==
    /\ bpc = "returned"
    /\ Len(batch_queries) >= 2
    /\ batch_log[1].raised
    /\ ~batch_log[2].raised
    /\ batch_results[2] # <<>>

\* what a call with these arguments returns when no other call runs
RECURSIVE RunFrame(_, _, _)
RunFrame(f, cfg, strategy) ==
    IF f.pc = "done" THEN f.out ELSE RunFrame(FrameStep(f, cfg, strategy), cfg, strategy)

RunAlone(a, cfg, strategy) ==
    RunFrame([IdleFrame EXCEPT !.pc = "start", !.kind = a.kind, !.arg = a.arg], cfg, strategy)

\* C23: under every interleaving of the steps of two calls on the same
\* chunker and ranker, a call returns what it returns when run alone, and no
\* step of a call writes the configuration of the instances
C23_NoInterference ==
    /\ [](\A c \in Calls :
             cpc[c] = "returned" => outs[c] = RunAlone(cargs[c], self, ranker.strategy))
    /\ [][(\E c \in Calls : cpc[c] # "idle") => UNCHANGED <<self, ranker>>]_vars

C23_Witness ==
    /\ cpc[1] = "returned"
    /\ cpc[2] = "running"
    /\ cargs[1].kind = "chunk"
    /\ cargs[2].kind = "chunk"
    /\ cargs[1].arg # cargs[2].arg
    /\ Len(outs[1]) >= 2
    /\ frames[2].pos >= 1
    /\ frames[2].current_chunk # <<>>
    /\ frames[2].pos < Len(frames[2].items)

\* the units of the model's result, metadata aside
Units(res) == [i \in 1..Len(res) |-> [content |-> res[i].content,
                                      chunk_index |-> res[i].chunk_index]]

\* what the character strategy has collected after n windows, and what it
\* returns
CharacterChunks(t, cfg, n) == CharChunksFrom(t, 0, cfg.chunk_size, cfg.chunk_overlap, n)

\* C24: a chunker with an unrecognised strategy raises nothing and returns
\* for every text the units of the character strategy (and while it runs it
\* has collected what the character strategy collects); a ranker with an
\* unrecognised strategy returns the ranking of the similarity strategy
C24_UnknownStrategy ==
    /\ (pc \in {"character", "done"} /\ self.strategy \in UnknownChunkers) =>
          /\ pc = "character" =>
                \E n \in 0..MaxChunks : char_chunks = CharacterChunks(text, self, n)
          /\ pc = "done" => Units(result) = Wrapped(CharacterChunks(text, self, MaxChunks))
    /\ (rpc = "returned" /\ ranker.strategy \in UnknownRankers) =>
          ranked = ApplyTopK(RankBySimilarity(documents), top_k)

C24_Witness ==
    /\ pc = "done"
    /\ self.strategy \in UnknownChunkers
    /\ Len(result) >= 2
    /\ result[1].content # result[2].content

\* the longest run of trailing sentences of cc whose lengths sum to at most
\* the overlap
LongestTrailingRun(cc, chunk_overlap) ==
    SetMax({k \in 0..Len(cc) : SumLen(LastN(cc, k)) <= chunk_overlap})

\* a chunk is emitted inside the sentence loop (the next sentence overflows)
SentenceOverflow ==
    /\ pc = "sentence"
    /\ pc' = "sentence"
    /\ Len(chunks') = Len(chunks) + 1

\* C25: when the sentence strategy emits a unit because the next sentence
\* would overflow, the next unit starts with the longest run of trailing
\* sentences of the emitted unit whose total length is at most the overlap,
\* so a last sentence that fits the overlap is carried
C25_SentenceCarry ==
    [][SentenceOverflow =>
          current_chunk' = Append(LastN(current_chunk,
                                        LongestTrailingRun(current_chunk, self.chunk_overlap)),
                                  sentences[pos + 1])]_vars

\* a chunk is emitted inside the paragraph loop because the next paragraph,
\* itself no longer than chunk_size, overflows the accumulation
ParagraphOverflow ==
    /\ pc = "paragraph"
    /\ pc' = "paragraph"
    /\ Len(chunks') = Len(chunks) + 1

\* C26: when the paragraph strategy emits an accumulation because the next
\* paragraph would overflow, the next unit is seeded with the most recent
\* paragraph of the emitted accumulation if and only if that paragraph is no
\* longer than the overlap, and with nothing otherwise
C26_ParagraphCarry ==
    [][ParagraphOverflow =>
          LET last == current_chunk[Len(current_chunk)]
              paragraph == Strip(paragraphs[pos + 1])
          IN  current_chunk' = IF Len(last) <= self.chunk_overlap
                               THEN <<last, paragraph>>
                               ELSE <<paragraph>>]_vars

\* the greater of the last index of ". " and the last index of a newline in
\* the window w (0-based, -1 when there is neither)
LastBreak(w) ==
    SetMax({-1} \cup {i \in 0..(Len(w) - 2) : w[i + 1] = "." /\ w[i + 2] = " "}
                \cup {i \in 0..(Len(w) - 1) : w[i + 1] = "\n"})

\* where the window that starts at st ends according to the break rule
BreakRuleEnd(t, st, chunk_size) ==
    LET b == LastBreak(PySlice(t, st, st + chunk_size))
    IN  IF st + chunk_size < Len(t) /\ b > chunk_size \div 2
        THEN st + b + 1
        ELSE st + chunk_size

\* C27: a window of the character strategy whose nominal end lies before the
\* end of the text ends just after its last ". " or newline when that break
\* lies past chunk_size div 2 and is cut at chunk_size characters otherwise;
\* the next window starts chunk_overlap characters before the actual end
C27_BreakRule ==
    [][CharStep =>
          LET end == BreakRuleEnd(char_text, start, self.chunk_size)
              chunk == Strip(PySlice(char_text, start, end))
          IN  /\ start' = end - self.chunk_overlap
              /\ chunk # <<>> =>
                    /\ Len(char_chunks') = Len(char_chunks) + 1
                    /\ char_chunks'[Len(char_chunks')] = chunk
              /\ chunk = <<>> => char_chunks' = char_chunks]_vars

C27_Witness ==
    /\ pc = "character"
    /\ self.chunk_overlap >= 1
    /\ Len(char_windows) >= 2
    /\ char_windows[1].hi - char_windows[1].lo < self.chunk_size
    /\ char_windows[1].hi < Len(char_text)
    /\ char_windows[2].lo = char_windows[1].hi - self.chunk_overlap
    /\ start = char_windows[2].hi - self.chunk_overlap

UploadStages == {"saving", "reading", "parsing", "chunking", "embedding", "inserting"}

\* the file call c has in hand leaves the try block: it is counted as
\* processed or one error entry naming it is recorded, never both
CountedOnce ==
    \A c \in Calls :
        (upc[c] \in UploadStages /\ upc'[c] = "loop") =>
            \/ /\ processed_files'[c] = processed_files[c] + 1
               /\ up_errors'[c] = up_errors[c]
            \/ /\ processed_files'[c] = processed_files[c]
               /\ Len(up_errors'[c]) = Len(up_errors[c]) + 1
               /\ SubSeq(up_errors'[c], 1, Len(up_errors[c])) = up_errors[c]
               /\ up_errors'[c][Len(up_errors'[c])].file = up_files[c][up_pos[c]]

\* C28: whatever files fail at saving, parsing, chunking, embedding or
\* insertion, an upload takes every file in list order, counts each file
\* once as processed or as an error, and returns files_processed and errors
\* with files_processed + len(errors) = len(files), whatever another upload
\* does meanwhile
C28_UploadAccounting ==
    /\ [](\A c \in Calls :
             /\ up_attempts[c] = [i \in 1..Len(up_attempts[c]) |-> i]
             /\ upc[c] = "loop" =>
                   processed_files[c] + Len(up_errors[c]) = Len(up_attempts[c])
             /\ upc[c] \in UploadStages =>
                   processed_files[c] + Len(up_errors[c]) = Len(up_attempts[c]) - 1
             /\ upc[c] = "returned" =>
                   /\ Len(up_attempts[c]) = Len(up_files[c])
                   /\ up_response[c].files_processed + Len(up_response[c].errors)
                         = Len(up_files[c]))
    /\ [][CountedOnce]_vars

\* call 1 returned after its first file failed and its second was processed,
\* while call 2 is suspended in the middle of its own file
C28_Witness ==
    /\ upc[1] = "returned"
    /\ Len(up_files[1]) = 2
    /\ up_attempts[1] = <<1, 2>>
    /\ up_response[1].files_processed = 1
    /\ up_response[1].errors = <<ErrorEntry(up_files[1][1], "parsing")>>
    /\ upc[2] = "reading"
    /\ up_attempts[2] = <<1>>

\* the position just past the last character of the text that window w holds
ReachOf(w, t) == Min2(w.hi, Len(t))

\* C29: with the character strategy the window of every collected unit after
\* the first reaches at least one character position beyond the end of the
\* window of the unit before it, so no unit lies wholly inside its predecessor
C29_NewText ==
    (self.strategy = "character") =>
        \A i \in 2..Len(char_windows) :
            ReachOf(char_windows[i], char_text) > ReachOf(char_windows[i - 1], char_text)

\* the character loop of a chunk() call begins
CharLoopEntered == pc # "character" /\ pc' = "character"

\* every non-whitespace character of t lies in the window of a unit of res
\* whose content is that window, stripped
AllTextKept(t, ws, res) ==
    \A p \in 1..Len(t) :
        t[p] \notin Whitespace =>
            \E i \in 1..Len(ws) :
                /\ ws[i].lo < p
                /\ p <= ws[i].hi
                /\ i <= Len(res)
                /\ res[i].content = Strip(PySlice(t, ws[i].lo, ws[i].hi))

\* C30: when the character strategy returns, no text is lost: the first
\* window starts at position 0, every window starts at or before the end of
\* the one before it, the last window reaches the end of the text, and every
\* non-whitespace character of the text lies inside a returned unit
C30_NoTextLost ==
    /\ []((pc = "done" /\ ~IsBlank(text)) =>
             /\ start + self.chunk_overlap >= Len(text)
             /\ AllTextKept(text, char_windows, result))
    /\ [][CharLoopEntered => start' = 0]_vars
    /\ [][CharStep =>
             /\ start >= 0
             /\ start' <= BreakRuleEnd(char_text, start, self.chunk_size)]_vars

\* a call returned two units from overlapping windows, the first shortened
\* at a break point and stripped of whitespace
C30_Witness ==
    /\ pc = "done"
    /\ Len(result) >= 2
    /\ self.chunk_overlap >= 1
    /\ char_windows[2].lo < char_windows[1].hi
    /\ char_windows[1].hi - char_windows[1].lo < self.chunk_size
    /\ Len(result[1].content) < char_windows[1].hi - char_windows[1].lo
    /\ char_windows[Len(char_windows)].hi >= Len(text)

====
